---- MODULE Spec2Model ----
(***************************************************************************)
(* Model of the Lixqa API client: the runtime request client               *)
(* (src/src/lib/base-client.ts, createRequest) and the generator's route   *)
(* normalizer, route tree builder and implementation emitter               *)
(* (src/src/bin/generator/code-generator.ts).                              *)
(*                                                                         *)
(* Strings that the code inspects character by character (paths, header    *)
(* values, method names, object keys) are sequences of one-character       *)
(* strings, so that split, startsWith, slice, parseInt, toLowerCase and    *)
(* toUpperCase are computed rather than assumed.                           *)
(***************************************************************************)
EXTENDS Integers, Sequences, FiniteSets, TLC

VARIABLES
    \* ---- runtime client: state captured by createRequest ----
    baseUrl,          \* options.baseUrl || 'http://localhost:3000'
    defaultHeaders,   \* the defaultHeaders object shared by all calls
    retryOnRatelimit, \* options.retryOnRatelimit ?? false
    proxyFn,          \* TRUE iff options.proxyFn is set
    \* ---- runtime client: one entry per call of the request function ----
    pc,               \* position of the call in the async function
    reqArgs,          \* (path, method, requestOptions) of the call
    url,              \* the URL the call built
    attempt,          \* the loop variable of the retry loop
    inflight,         \* the outgoing request awaiting its response
    sent,             \* every outgoing request of the call, in order
    history,          \* every response the call received, in order
    results,          \* what fetch or proxyFn resolved with, in order
    sleeps,           \* every argument the call passed to sleep, in order
    outcome,          \* how the call ended
    \* ---- generator ----
    gpc,              \* position of the generation run
    rawRoutes,        \* the fetched route list
    routes,           \* the list returned by processRoutes
    tree,             \* the tree built by buildCompleteTree
    nextRoute,        \* index of the next route buildCompleteTree inserts
    emitted,          \* the entries generateFromTree emitted, per object
    apiInterface,     \* the entries generateInterfaceFromTree emitted
    invoked,          \* what a call chain on the emitted object invoked
    \* ---- ValidationError ----
    validationData,   \* this.validationData of a ValidationError
    flattened,        \* what flatten() returned
    byPath,           \* what getErrorMessagesByPath() returned
    \* ---- generateMethodSignature ----
    methodSchema,     \* route.schema[method] of the method being emitted
    separateTypes,    \* the separateTypes argument
    signature,        \* the signature generateMethodSignature returned
    conversion,       \* a running call of zodDefToTypeScript: its call stack
    nameArgs,         \* the arguments of two calls of generateTypeName
    typeNames,        \* the names the two calls returned
    typeDefinitions,  \* the map collectTypesFromTree filled
    \* ---- generateClient ----
    generatorOptions, \* the options generateClient is called with
    served,           \* how the server answers GET <url>/__client__
    clock,            \* the time new Date() reads
    runsStarted,      \* how many times generateClient was called
    outputFile,       \* the contents of the output file, if it exists
    outputs           \* the generated code of every write, in order

rtVars == <<baseUrl, defaultHeaders, retryOnRatelimit, proxyFn, pc, reqArgs,
            url, attempt, inflight, sent, history, results, sleeps, outcome>>
genVars == <<gpc, rawRoutes, routes, tree, nextRoute, emitted, apiInterface,
            invoked>>
errVars == <<validationData, flattened, byPath>>
sigVars == <<methodSchema, separateTypes, signature, conversion, nameArgs,
            typeNames, typeDefinitions>>
runVars == <<generatorOptions, served, clock, runsStarted, outputFile,
             outputs>>
vars == <<baseUrl, defaultHeaders, retryOnRatelimit, proxyFn, pc, reqArgs,
          url, attempt, inflight, sent, history, results, sleeps, outcome,
          gpc, rawRoutes, routes, tree, nextRoute, emitted, apiInterface,
          invoked,
          validationData, flattened, byPath,
          methodSchema, separateTypes, signature, conversion, nameArgs,
          typeNames, typeDefinitions,
          generatorOptions, served, clock, runsStarted, outputFile, outputs>>

----------------------------------------------------------------------------
(* Bounds *)

\* largest retryOnRatelimit a client is configured with
MaxRetries == 2
\* number of concurrent calls in the interleaving specification
NumCalls == 2
\* longest fetched route list
MaxRoutes == 2
\* number of generation runs against the same server
MaxRuns == 2
\* number of nested calls after which the engine raises RangeError
StackLimit == 8

----------------------------------------------------------------------------
(* Characters and strings *)

\* (upper, lower) pairs of the letters the model's strings use
CasePairs ==
    { <<"G", "g">>, <<"E", "e">>, <<"T", "t">>, <<"D", "d">>, <<"L", "l">>,
      <<"P", "p">>, <<"O", "o">>, <<"S", "s">>, <<"Z", "z">>, <<"U", "u">>,
      <<"A", "a">>, <<"I", "i">>, <<"J", "j">>, <<"R", "r">>, <<"M", "m">> }

ToLowerChar(c) ==
    IF \E p \in CasePairs : p[1] = c
    THEN (CHOOSE p \in CasePairs : p[1] = c)[2]
    ELSE c

ToUpperChar(c) ==
    IF \E p \in CasePairs : p[2] = c
    THEN (CHOOSE p \in CasePairs : p[2] = c)[1]
    ELSE c

\* String.prototype.toLowerCase / toUpperCase
ToLowerCase(s) == [i \in 1..Len(s) |-> ToLowerChar(s[i])]
ToUpperCase(s) == [i \in 1..Len(s) |-> ToUpperChar(s[i])]

\* an optional value: None is null/undefined, Some(v) a present value
None == << >>
Some(v) == <<v>>

----------------------------------------------------------------------------
(* JavaScript numbers: an integer or NaN *)

Num(n) == [nan |-> FALSE, v |-> n]
NaN == [nan |-> TRUE, v |-> 0]

\* Math.max and Math.min return NaN when an argument is NaN
MathMax(a, b) == IF a.nan \/ b.nan THEN NaN
                 ELSE IF a.v >= b.v THEN a ELSE b
MathMin(a, b) == IF a.nan \/ b.nan THEN NaN
                 ELSE IF a.v <= b.v THEN a ELSE b
Minus(a, b) == IF a.nan \/ b.nan THEN NaN ELSE Num(a.v - b.v)

Digits == {"0", "1", "2", "3", "4", "5", "6", "7", "8", "9"}
DigitVal(c) == CASE c = "0" -> 0 [] c = "1" -> 1 [] c = "2" -> 2
                 [] c = "3" -> 3 [] c = "4" -> 4 [] c = "5" -> 5
                 [] c = "6" -> 6 [] c = "7" -> 7 [] c = "8" -> 8
                 [] c = "9" -> 9

RECURSIVE DigitsValue(_, _)
\* value of the longest digit prefix of s, continuing from acc
DigitsValue(s, acc) ==
    IF s = << >> \/ ~(Head(s) \in Digits) THEN acc
    ELSE DigitsValue(Tail(s), 10 * acc + DigitVal(Head(s)))

RECURSIVE SkipSpace(_)
SkipSpace(s) == IF s # << >> /\ Head(s) = " " THEN SkipSpace(Tail(s)) ELSE s

\* parseInt(s, 10): leading blanks, an optional sign, then the longest digit
\* prefix; NaN when there is no digit
ParseInt(s) ==
    LET t == SkipSpace(s)
        neg == t # << >> /\ Head(t) = "-"
        signed == t # << >> /\ Head(t) \in {"-", "+"}
        u == IF signed THEN Tail(t) ELSE t
    IN  IF u = << >> \/ ~(Head(u) \in Digits) THEN NaN
        ELSE IF neg THEN Num(0 - DigitsValue(u, 0))
        ELSE Num(DigitsValue(u, 0))

----------------------------------------------------------------------------
(* Runtime client: values *)

\* JavaScript truthiness of the tokens that stand for field values
Falsy == {"undefined", "null", "", "false", "0"}
Truthy(v) == ~(v \in Falsy)

ZOD == <<"z", "o", "d">>
APPLICATION_JSON == "application/json"

\* a header map with no entry
NoHeaders == [k \in {} |-> ""]
Delete(h, k) == [x \in DOMAIN h \ {k} |-> h[x]]
\* { ...a, ...b }: the entries of b override those of a
Spread(a, b) == [x \in DOMAIN a \cup DOMAIN b |->
                    IF x \in DOMAIN b THEN b[x] ELSE a[x]]

\* Response headers the client reads; a content-type value is the sequence of
\* its parts (media type, then parameters)
Hdr(ra, rs, bt, ct) == [resetAfter |-> ra, reset |-> rs, badType |-> bt,
                        ctype |-> ct]
JsonType == Some(<<APPLICATION_JSON>>)
JsonUtf8Type == Some(<<APPLICATION_JSON, "; charset=utf-8">>)
TextType == Some(<<"text/plain">>)

\* A value a response body is read as: an object, a string, or null
EmptyObject == [k \in {} |-> ""]
ObjectBody(o) == [isObj |-> TRUE, isNull |-> FALSE, obj |-> o, str |-> ""]
TextBody(t) == [isObj |-> FALSE, isNull |-> FALSE, obj |-> EmptyObject,
                str |-> t]
NullValue == [isObj |-> FALSE, isNull |-> TRUE, obj |-> EmptyObject,
              str |-> ""]

\* A response body: its text, and the value it parses to when it is JSON
\* (None when JSON.parse throws)
ObjData ==
    [text |-> "{data:errs}", parse |-> Some(ObjectBody([data |-> "errs"]))]
ObjNullData ==
    [text |-> "{data:null}", parse |-> Some(ObjectBody([data |-> "null"]))]
ObjNoData ==
    [text |-> "{error:x}", parse |-> Some(ObjectBody([error |-> "x"]))]
Garbage == [text |-> "<html>", parse |-> None]
\* the JSON text null
NullJson == [text |-> "null", parse |-> Some(NullValue)]
\* no body at all
NoContent == [text |-> "", parse |-> None]

Resp(st, h, b) == [status |-> st, hdr |-> h, body |-> b]

\* x-ratelimit-reset-after values: numeric, negative, above the cap,
\* non-numeric, empty
ResetAfterValues ==
    { <<"5", "0">>, <<"-", "5">>, <<"3", "0", "0", "0", "0", "1">>,
      <<"a", "b">>, << >> }
\* x-ratelimit-reset values: numeric, non-numeric
ResetValues == { <<"9", "0", "0">>, <<"s", "o", "o", "n">> }
\* values Date.now() takes: before and after the numeric reset value
NowValues == {100, 950}

RateLimited ==
    { Resp(429, Hdr(Some(v), None, None, JsonType), ObjNoData) :
        v \in ResetAfterValues }
    \cup { Resp(429, Hdr(None, Some(v), None, JsonType), ObjNoData) :
        v \in ResetValues }
    \cup { Resp(429, Hdr(Some(<<"5", "0">>), Some(<<"9", "0", "0">>), None,
                         JsonType), ObjNoData),
           Resp(429, Hdr(None, None, None, JsonType), ObjNoData) }

Succeeded ==
    { Resp(st, Hdr(None, None, None, JsonType), b) :
        st \in {200, 204}, b \in {ObjData, ObjNoData, Garbage} }
    \cup { Resp(200, Hdr(None, None, None, JsonType), NullJson),
           Resp(204, Hdr(None, None, None, None), NoContent) }

BadTypeValues == { None, Some(ZOD), Some(<<"Z", "O", "D">>),
                   Some(<<"Z", "o", "d">>), Some(<<"z", "o">>) }

Failed ==
    { Resp(400, Hdr(None, None, bt, JsonType), ObjData) :
        bt \in BadTypeValues }
    \cup { Resp(400, Hdr(None, None, Some(ZOD), JsonType), b) :
        b \in {ObjNullData, ObjNoData, Garbage} }
    \cup { Resp(400, Hdr(None, None, Some(ZOD), ct), ObjData) :
        ct \in {JsonUtf8Type, TextType, None} }
    \cup { Resp(500, Hdr(None, None, Some(ZOD), JsonType), ObjData),
           Resp(500, Hdr(None, None, None, TextType), Garbage) }

Responses == RateLimited \cup Succeeded \cup Failed

\* Response.ok
Ok(r) == r.status >= 200 /\ r.status <= 299

\* the same response set, small, for the interleaving specification
FewResponses ==
    { Resp(200, Hdr(None, None, None, JsonType), ObjData),
      Resp(429, Hdr(Some(<<"5", "0">>), None, None, JsonType), ObjNoData),
      Resp(500, Hdr(None, None, None, TextType), Garbage) }

----------------------------------------------------------------------------
(* Runtime client: configuration and arguments *)

\* retryOnRatelimit: false (or absent), or a number
RetryFalse == [isNum |-> FALSE, n |-> 0]
RetryNum(n) == [isNum |-> TRUE, n |-> n]
RetryOptions == {RetryFalse} \cup {RetryNum(n) : n \in (0 - 1)..MaxRetries}

DEFAULT_BASE_URL ==
    <<"h", "t", "t", "p", ":", "/", "/", "l", "o", "c", "a", "l", "h", "o",
      "s", "t", ":", "3", "0", "0", "0">>
\* a configured base URL with a path
EXAMPLE_BASE_URL ==
    <<"h", "t", "t", "p", "s", ":", "/", "/", "a", "p", "i", ".", "e", "x",
      "/", "v", "1">>

\* options.baseUrl, options.headers, options.authToken and whether
\* options.proxyFn is given
ClientOptions ==
    { [baseUrl |-> None, headers |-> NoHeaders, authToken |-> None,
       proxyFn |-> FALSE],
      [baseUrl |-> None, headers |-> NoHeaders, authToken |-> None,
       proxyFn |-> TRUE],
      [baseUrl |-> Some(EXAMPLE_BASE_URL),
       headers |-> [k \in {"X-Trace"} |-> "1"], authToken |-> Some("tok"),
       proxyFn |-> FALSE] }

\* baseUrl
BaseUrlOf(o) == IF o.baseUrl # None THEN o.baseUrl[1] ELSE DEFAULT_BASE_URL

GET == <<"G", "E", "T">>
DELETE == <<"D", "E", "L", "E", "T", "E">>
POST == <<"P", "O", "S", "T">>

\* requestOptions.body: an object given as its entries, in key order
BodyAB == << <<"a", "1">>, <<"b", "undefined">> >>
\* requestOptions.files
OneFile == [file |-> Some("f1"), files |-> None]
ManyFiles == [file |-> None, files |-> Some(<<"f1", "f2">>)]
EmptyFiles == [file |-> None, files |-> None]

\* request paths
USERS == <<"/", "u", "s", "e", "r", "s">>
UPLOAD == <<"/", "u", "p", "l", "o", "a", "d">>

\* the arguments of one call: path, method and requestOptions
ArgsQ(p, m, b, f, q) == [path |-> p, method |-> m, body |-> b, files |-> f,
                         query |-> q]
Args(p, m, b, f) == ArgsQ(p, m, b, f, None)
RequestArgs ==
    { Args(USERS, GET, None, None),
      Args(USERS, POST, Some(BodyAB), None),
      Args(UPLOAD, ToLowerCase(POST), None, Some(OneFile)),
      Args(UPLOAD, POST, Some(BodyAB), Some(ManyFiles)),
      Args(UPLOAD, POST, None, Some(EmptyFiles)) }

----------------------------------------------------------------------------
(* Runtime client: createRequest *)

\* the defaultHeaders object createRequest builds
DefaultHeadersOf(o) ==
    LET merged == Spread([k \in {"Content-Type"} |-> APPLICATION_JSON],
                         o.headers)
    IN  IF o.authToken # None
        THEN Spread(merged, [k \in {"Authorization"} |-> o.authToken[1]])
        ELSE merged

\* maxRetries counted one too high
MaxRetriesOfOffByOne(retry) == IF retry.isNum THEN retry.n + 1 ELSE 0

\* maxRetries
MaxRetriesOf(retry) == IF retry.isNum THEN retry.n ELSE 0
\* maxAttempts
MaxAttemptsOf(retry) == MaxRetriesOf(retry) + 1

----------------------------------------------------------------------------
(* Runtime client: URLs *)

\* the first index of s holding a character of cs, 0 when there is none
FirstIndex(s, cs) ==
    IF \E i \in 1..Len(s) : s[i] \in cs
    THEN CHOOSE i \in 1..Len(s) :
            s[i] \in cs /\ \A j \in 1..(i - 1) : ~(s[j] \in cs)
    ELSE 0

\* s.slice(i - 1): s from its i-th character on
From(s, i) == SubSeq(s, i, Len(s))
\* s.startsWith(p) and s.endsWith(p)
StartsWith(s, p) == Len(s) >= Len(p) /\ SubSeq(s, 1, Len(p)) = p
EndsWith(s, p) ==
    Len(s) >= Len(p) /\ SubSeq(s, Len(s) - Len(p) + 1, Len(s)) = p

RECURSIVE SplitOn(_, _)
\* s.split(ch)
SplitOn(s, ch) ==
    LET i == FirstIndex(s, {ch})
    IN  IF i = 0 THEN <<s>>
        ELSE <<SubSeq(s, 1, i - 1)>> \o SplitOn(From(s, i + 1), ch)

RECURSIVE JoinWith(_, _)
\* parts.join(ch)
JoinWith(parts, ch) ==
    IF parts = << >> THEN << >>
    ELSE IF Len(parts) = 1 THEN parts[1]
    ELSE parts[1] \o <<ch>> \o JoinWith(Tail(parts), ch)

RECURSIVE RemoveDots(_, _)
\* the URL parser's path state over the segments left, acc the path so far:
\* '..' drops the last segment, '.' adds none, and either one as the last
\* segment leaves an empty segment behind
RemoveDots(segs, acc) ==
    IF segs = << >> THEN acc
    ELSE LET seg == Head(segs)
             last == Len(segs) = 1
             popped == IF acc = << >> THEN acc
                       ELSE SubSeq(acc, 1, Len(acc) - 1)
         IN  IF seg = <<".", ".">>
             THEN RemoveDots(Tail(segs),
                             IF last THEN Append(popped, << >>) ELSE popped)
             ELSE IF seg = <<".">>
             THEN RemoveDots(Tail(segs),
                             IF last THEN Append(acc, << >>) ELSE acc)
             ELSE RemoveDots(Tail(segs), Append(acc, seg))

\* pathname of a parsed http(s) URL whose path text is p (empty, or starting
\* with '/')
NormalizePath(p) ==
    LET segs == IF p = << >> THEN << << >> >> ELSE SplitOn(Tail(p), "/")
    IN  <<"/">> \o JoinWith(RemoveDots(segs, << >>), "/")

\* a parsed URL: .search without its '?', .hash without its '#'
Url(sc, h, pn, q, f) == [scheme |-> sc, host |-> h, pathname |-> pn,
                         query |-> q, hash |-> f]

\* the URL parser on text that starts at the authority ('//host...') or at
\* the path ('/...'), resolved against scheme sc and host h
ParseFrom(text, sc, h) ==
    LET fi == FirstIndex(text, {"#"})
        frag == IF fi = 0 THEN << >> ELSE From(text, fi + 1)
        t1 == IF fi = 0 THEN text ELSE SubSeq(text, 1, fi - 1)
        qi == FirstIndex(t1, {"?"})
        qry == IF qi = 0 THEN << >> ELSE From(t1, qi + 1)
        t2 == IF qi = 0 THEN t1 ELSE SubSeq(t1, 1, qi - 1)
    IN  IF StartsWith(t2, <<"/", "/">>)
        THEN LET rest == From(t2, 3)
                 ai == FirstIndex(rest, {"/"})
             IN  Url(sc, IF ai = 0 THEN rest ELSE SubSeq(rest, 1, ai - 1),
                     NormalizePath(IF ai = 0 THEN << >> ELSE From(rest, ai)),
                     qry, frag)
        ELSE Url(sc, h, NormalizePath(t2), qry, frag)

\* new URL(baseUrl) of an absolute http(s) URL
ParseAbsolute(text) ==
    LET ci == FirstIndex(text, {":"})
    IN  ParseFrom(From(text, ci + 1), SubSeq(text, 1, ci - 1), << >>)

\* new URL(fullPath, origin)
ParseRelative(fullPath, sc, h) == ParseFrom(fullPath, sc, h)

RECURSIVE PairsOfParts(_)
\* the (name, value) pair of each non-empty part of a query string
PairsOfParts(parts) ==
    IF parts = << >> THEN << >>
    ELSE LET part == Head(parts)
             ei == FirstIndex(part, {"="})
         IN  IF part = << >> THEN PairsOfParts(Tail(parts))
             ELSE IF ei = 0
             THEN << <<part, << >> >> >> \o PairsOfParts(Tail(parts))
             ELSE << <<SubSeq(part, 1, ei - 1), From(part, ei + 1)>> >>
                  \o PairsOfParts(Tail(parts))

\* url.searchParams of a URL whose query text is q
SearchParams(q) == IF q = << >> THEN << >> ELSE PairsOfParts(SplitOn(q, "&"))

RECURSIVE DefinedQuery(_)
\* the entries of requestOptions.query appended to the URL: those whose value
\* is not undefined (None), the value as String(value) gives it
DefinedQuery(es) ==
    IF es = << >> THEN << >>
    ELSE IF Head(es)[2] # None
         THEN << <<Head(es)[1], Head(es)[2][1]>> >> \o DefinedQuery(Tail(es))
         ELSE DefinedQuery(Tail(es))

\* the final URL: origin, pathname, the search parameters in order, the hash
FinalUrl(sc, h, pn, ps, f) == [scheme |-> sc, host |-> h, pathname |-> pn,
                               params |-> ps, hash |-> f]
\* the value of url before a call has built it
NoUrl == FinalUrl(<< >>, << >>, << >>, << >>, << >>)

\* relativePath
RelativePath(path) == IF StartsWith(path, <<"/">>) THEN Tail(path) ELSE path

\* fullPath
FullPath(pathname, path) ==
    IF EndsWith(pathname, <<"/">>) THEN pathname \o RelativePath(path)
    ELSE pathname \o <<"/">> \o RelativePath(path)

\* the URL of a call
BuildUrl(base, args) ==
    LET baseUrlObj == ParseAbsolute(base)
        u == ParseRelative(FullPath(baseUrlObj.pathname, args.path),
                           baseUrlObj.scheme, baseUrlObj.host)
        own == SearchParams(u.query)
        kept == IF baseUrlObj.query # << >>
                THEN own \o SearchParams(baseUrlObj.query) ELSE own
        hash == IF baseUrlObj.hash # << >> THEN baseUrlObj.hash ELSE u.hash
        added == IF args.query # None THEN DefinedQuery(args.query[1])
                 ELSE << >>
    IN  FinalUrl(u.scheme, u.host, u.pathname, kept \o added, hash)

----------------------------------------------------------------------------
(* Runtime client: the request of one attempt *)

RECURSIVE DefinedEntries(_)
\* the entries of an object whose value is not undefined, value stringified
DefinedEntries(es) ==
    IF es = << >> THEN << >>
    ELSE IF Head(es)[2] # "undefined"
         THEN <<Head(es)>> \o DefinedEntries(Tail(es))
         ELSE DefinedEntries(Tail(es))

\* the FormData makeRequest builds from requestOptions.files and .body
FormDataOf(args) ==
    LET f == args.files[1]
        single == IF f.file # None THEN << <<"file", f.file[1]>> >> ELSE << >>
        many == IF f.files # None
                THEN [i \in 1..Len(f.files[1]) |-> <<"files", f.files[1][i]>>]
                ELSE << >>
        fields == IF args.body # None THEN DefinedEntries(args.body[1])
                  ELSE << >>
    IN  [kind |-> "multipart", entries |-> single \o many \o fields]

\* JSON.stringify of the body object: undefined values are left out
JsonBodyOf(args) == [kind |-> "json", entries |-> DefinedEntries(args.body[1])]

NoBody == [kind |-> "none", entries |-> << >>]

\* requestBody of one attempt
RequestBodyOf(args) ==
    IF args.files # None THEN FormDataOf(args)
    ELSE IF args.body # None THEN JsonBodyOf(args)
    ELSE NoBody

\* fetchOptions.headers of one attempt: a copy of defaultHeaders, without
\* Content-Type when the body is a form
FetchHeadersOf(dh, args) ==
    IF args.files # None THEN Delete(dh, "Content-Type") ELSE dh

\* proxyRequest.headers of one attempt
ProxyHeadersOf(dh, args) == dh

\* the Content-Type entry deleted from defaultHeaders itself, not from a copy
SharedHeadersAfterNoCopy(dh, args) ==
    IF args.files # None THEN Delete(dh, "Content-Type") ELSE dh

\* what one attempt does to the shared defaultHeaders object: nothing, both
\* header sets are spread copies
SharedHeadersAfter(dh, args) == dh

\* the request one attempt hands to fetch or to proxyFn
Outgoing(dh, px, u, args) ==
    IF px
    THEN [via |-> "proxyFn", url |-> u, method |-> ToUpperCase(args.method),
          headers |-> ProxyHeadersOf(dh, args), body |-> RequestBodyOf(args)]
    ELSE [via |-> "fetch", url |-> u, method |-> args.method,
          headers |-> FetchHeadersOf(dh, args), body |-> RequestBodyOf(args)]

----------------------------------------------------------------------------
(* Runtime client: handling one response *)

\* contentType?.includes('application/json')
IsJson(r) ==
    /\ r.hdr.ctype # None
    /\ \E i \in 1..Len(r.hdr.ctype[1]) : r.hdr.ctype[1][i] = APPLICATION_JSON

\* responseBody of the failure branch: json() when the content type says
\* JSON, else text(); the empty object when parsing throws
ParsedBodyOf(r) ==
    IF IsJson(r)
    THEN IF r.body.parse # None THEN r.body.parse[1]
         ELSE ObjectBody(EmptyObject)
    ELSE TextBody(r.body.text)

\* b?.data
DataOf(b) == IF b.isObj /\ "data" \in DOMAIN b.obj THEN b.obj["data"]
             ELSE "undefined"

\* waitTime before the clamp
RawWaitTime(r, now) ==
    IF r.hdr.resetAfter # None /\ r.hdr.resetAfter[1] # << >>
    THEN ParseInt(r.hdr.resetAfter[1])
    ELSE IF r.hdr.reset # None /\ r.hdr.reset[1] # << >>
    THEN MathMax(Num(0), Minus(ParseInt(r.hdr.reset[1]), Num(now)))
    ELSE Num(1000)

\* waitTime handed to sleep: Math.min(Math.max(waitTime, 0), 300000)
WaitTime(r, now) == MathMin(MathMax(RawWaitTime(r, now), Num(0)), Num(300000))

\* a retry after every failed response, whatever its status
ShouldRetryAnyStatus(r, retry, att) ==
    /\ ~Ok(r)
    /\ retry.isNum
    /\ att < MaxRetriesOf(retry)

\* a retry granted once more than the budget allows
ShouldRetryOnceMore(r, retry, att) ==
    /\ ~Ok(r)
    /\ r.status = 429
    /\ retry.isNum
    /\ att <= MaxRetriesOf(retry)

\* the 429 branch is taken and a retry remains
ShouldRetry(r, retry, att) ==
    /\ ~Ok(r)
    /\ r.status = 429
    /\ retry.isNum
    /\ att < MaxRetriesOf(retry)

\* isValidationError with the header compared case-sensitively
IsValidationErrorCaseSensitive(r) ==
    /\ r.status = 400
    /\ r.hdr.badType # None
    /\ r.hdr.badType[1] = ZOD
    /\ Truthy(DataOf(ParsedBodyOf(r)))

\* isValidationError
IsValidationError(r) ==
    /\ r.status = 400
    /\ r.hdr.badType # None
    /\ ToLowerCase(r.hdr.badType[1]) = ZOD
    /\ Truthy(DataOf(ParsedBodyOf(r)))

\* errorInfo
ErrorInfo(r, u, args) ==
    [status |-> r.status, url |-> u, method |-> ToUpperCase(args.method),
     headers |-> r.hdr, body |-> ParsedBodyOf(r)]

NoInfo == None
Returned(v) == [kind |-> "returned", error |-> "", info |-> NoInfo, value |-> v]
Raised(e, i) == [kind |-> "raised", error |-> e, info |-> i,
                 value |-> "undefined"]
Pending == [kind |-> "pending", error |-> "", info |-> NoInfo,
            value |-> "undefined"]

\* the error the failure branch throws
FailureOf(r, u, args) ==
    IF IsValidationError(r)
    THEN Raised("ValidationError", Some(ErrorInfo(r, u, args)))
    ELSE Raised("RequestError", Some(ErrorInfo(r, u, args)))

\* the success branch with the body parsed before the status is looked at
SuccessOfReadsBody(r) ==
    IF r.body.parse = None THEN Raised("SyntaxError", NoInfo)
    ELSE IF r.status = 204 THEN Returned("undefined")
    ELSE IF r.body.parse[1].isNull THEN Raised("TypeError", NoInfo)
    ELSE Returned(DataOf(r.body.parse[1]))

\* the success branch: undefined on 204, else the data field of the JSON
\* body; response.json() throws on a body that is not JSON, and reading
\* .data of null throws
SuccessOf(r) ==
    IF r.status = 204 THEN Returned("undefined")
    ELSE IF r.body.parse = None THEN Raised("SyntaxError", NoInfo)
    ELSE IF r.body.parse[1].isNull THEN Raised("TypeError", NoInfo)
    ELSE Returned(DataOf(r.body.parse[1]))

\* how a response that is not retried ends the call
OutcomeOf(r, u, args) ==
    IF Ok(r) THEN SuccessOf(r) ELSE FailureOf(r, u, args)

----------------------------------------------------------------------------
(* Runtime client: the steps of one call *)

\* the head of the retry loop with loop variable att: either the next attempt
\* is sent, or the loop is left and the trailing throw is reached
LoopHead(c, att) ==
    IF att < MaxAttemptsOf(retryOnRatelimit)
    THEN LET u == IF pc[c] = "idle" THEN BuildUrl(baseUrl, reqArgs[c])
                  ELSE url[c]
             out == Outgoing(defaultHeaders, proxyFn, u, reqArgs[c])
         IN  /\ inflight' = [inflight EXCEPT ![c] = Some(out)]
             /\ sent' = [sent EXCEPT ![c] = Append(@, out)]
             /\ defaultHeaders' = SharedHeadersAfter(defaultHeaders, reqArgs[c])
             /\ pc' = [pc EXCEPT ![c] = "awaiting"]
             /\ outcome' = outcome
    ELSE /\ pc' = [pc EXCEPT ![c] = "done"]
         /\ outcome' = [outcome EXCEPT ![c] = Raised("Error", NoInfo)]
         /\ UNCHANGED <<inflight, sent, defaultHeaders>>

\* the request function is called: the URL is built and the loop entered
Invoke(c) ==
    /\ pc[c] = "idle"
    /\ url' = [url EXCEPT ![c] = BuildUrl(baseUrl, reqArgs[c])]
    /\ attempt' = [attempt EXCEPT ![c] = 0]
    /\ LoopHead(c, 0)
    /\ UNCHANGED <<baseUrl, retryOnRatelimit, proxyFn, reqArgs, history,
                   results, sleeps>>
    /\ UNCHANGED <<genVars, errVars, sigVars, runVars>>

\* What fetch or proxyFn resolves with: a Response, or a structured object
\* {status, headers, body, ok} whose body is a string, an object, null or
\* undefined
RawResult(r) == [form |-> "response", status |-> r.status, hdr |-> r.hdr,
                 bodyKind |-> "stream", body |-> r.body, ok |-> Ok(r)]
Structured(st, h, kind, b, ok) ==
    [form |-> "object", status |-> st, hdr |-> h, bodyKind |-> kind,
     body |-> b, ok |-> ok]

\* the statuses for which the Response constructor rejects a body
NULL_BODY_STATUS == {101, 103, 204, 205, 304}
\* the content type the Response constructor gives a string body
TextPlainType == Some(<<"text/plain", ";charset=UTF-8">>)

\* body of normalizeProxyResponse: the string itself, else
\* JSON.stringify(body), which is undefined (None) for undefined
StringifiedBody(res) ==
    CASE res.bodyKind = "string" -> Some(res.body)
      [] res.bodyKind = "object" -> Some(res.body)
      [] res.bodyKind = "null" -> Some(NullJson)
      [] OTHER -> None

\* normalizeProxyResponse: a Response as it is; of a structured object the
\* Response built from its status, headers and body, ok left unread
NormalizeProxyResponse(res) ==
    IF res.form = "response"
    THEN [threw |-> FALSE, resp |-> Resp(res.status, res.hdr, res.body)]
    ELSE LET body == StringifiedBody(res)
         IN  IF body # None /\ res.status \in NULL_BODY_STATUS
             THEN [threw |-> TRUE,
                   resp |-> Resp(res.status, res.hdr, NoContent)]
             ELSE IF body # None
             THEN [threw |-> FALSE,
                   resp |-> Resp(res.status,
                                 IF res.hdr.ctype = None
                                 THEN [res.hdr EXCEPT !.ctype = TextPlainType]
                                 ELSE res.hdr,
                                 body[1])]
             ELSE [threw |-> FALSE,
                   resp |-> Resp(res.status, res.hdr, NoContent)]

\* the loop body on response r of call c while Date.now() is now
Handle(c, r, now) ==
    /\ history' = [history EXCEPT ![c] = Append(@, r)]
    /\ inflight' = [inflight EXCEPT ![c] = None]
    /\ IF ShouldRetry(r, retryOnRatelimit, attempt[c])
       THEN /\ sleeps' = [sleeps EXCEPT ![c] = Append(@, WaitTime(r, now))]
            /\ pc' = [pc EXCEPT ![c] = "sleeping"]
            /\ outcome' = outcome
       ELSE /\ pc' = [pc EXCEPT ![c] = "done"]
            /\ outcome' = [outcome EXCEPT
                             ![c] = OutcomeOf(r, url[c], reqArgs[c])]
            /\ sleeps' = sleeps

\* fetch, or proxyFn returning a Response, answers with response r while
\* Date.now() is now
Respond(c, r, now) ==
    /\ pc[c] = "awaiting"
    /\ results' = [results EXCEPT ![c] = Append(@, RawResult(r))]
    /\ Handle(c, r, now)
    /\ UNCHANGED <<baseUrl, defaultHeaders, retryOnRatelimit, proxyFn,
                   reqArgs, url, attempt, sent>>
    /\ UNCHANGED <<genVars, errVars, sigVars, runVars>>

\* proxyFn resolves with the structured object res while Date.now() is now:
\* normalizeProxyResponse builds the Response the loop body handles, or the
\* Response constructor throws and the rejection leaves the request function
ProxyResponds(c, res, now) ==
    /\ pc[c] = "awaiting"
    /\ proxyFn
    /\ res.form = "object"
    /\ results' = [results EXCEPT ![c] = Append(@, res)]
    /\ LET n == NormalizeProxyResponse(res)
       IN  IF n.threw
           THEN /\ inflight' = [inflight EXCEPT ![c] = None]
                /\ pc' = [pc EXCEPT ![c] = "done"]
                /\ outcome' = [outcome EXCEPT
                                 ![c] = Raised("TypeError", NoInfo)]
                /\ UNCHANGED <<history, sleeps>>
           ELSE Handle(c, n.resp, now)
    /\ UNCHANGED <<baseUrl, defaultHeaders, retryOnRatelimit, proxyFn,
                   reqArgs, url, attempt, sent>>
    /\ UNCHANGED <<genVars, errVars, sigVars, runVars>>

\* fetch or proxyFn rejects: the rejection leaves the request function
TransportFails(c) ==
    /\ pc[c] = "awaiting"
    /\ inflight' = [inflight EXCEPT ![c] = None]
    /\ pc' = [pc EXCEPT ![c] = "done"]
    /\ outcome' = [outcome EXCEPT ![c] = Raised("TypeError", NoInfo)]
    /\ UNCHANGED <<baseUrl, defaultHeaders, retryOnRatelimit, proxyFn,
                   reqArgs, url, attempt, sent, history, results, sleeps>>
    /\ UNCHANGED <<genVars, errVars, sigVars, runVars>>

\* the sleep ends: continue, attempt++, and the loop head again
Wake(c) ==
    /\ pc[c] = "sleeping"
    /\ attempt' = [attempt EXCEPT ![c] = @ + 1]
    /\ LoopHead(c, attempt[c] + 1)
    /\ UNCHANGED <<baseUrl, retryOnRatelimit, proxyFn, reqArgs, url, history,
                   results, sleeps>>
    /\ UNCHANGED <<genVars, errVars, sigVars, runVars>>

\* the variables of generateMethodSignature while it is not looked at
\* generateClient's variables while another part is modelled
RunIdle ==
    /\ generatorOptions = << >>
    /\ served = << >>
    /\ clock = 0
    /\ runsStarted = 0
    /\ outputFile = << >>
    /\ outputs = << >>

\* generateTypeName and collectTypesFromTree are not looked at
NamesIdle ==
    /\ nameArgs = << >>
    /\ typeNames = << >>
    /\ typeDefinitions = << >>

SigIdle ==
    /\ methodSchema = << >>
    /\ separateTypes = FALSE
    /\ signature = << >>
    /\ conversion = << >>
    /\ NamesIdle

\* the variables of a ValidationError while none is looked at
ErrIdle ==
    /\ validationData = << >>
    /\ flattened = << >>
    /\ byPath = << >>

\* the generator's variables while the runtime client is modelled
GenOff ==
    /\ gpc = "off"
    /\ rawRoutes = << >>
    /\ routes = << >>
    /\ tree = << >>
    /\ nextRoute = 0
    /\ emitted = << >>
    /\ apiInterface = << >>
    /\ invoked = << >>

\* a client built by createRequest(o) with retryOnRatelimit retry, and the
\* calls in C about to be made on it
InitClientOf(opts, C, retryOpts, argsSet) ==
    /\ \E o \in opts :
         /\ baseUrl = BaseUrlOf(o)
         /\ defaultHeaders = DefaultHeadersOf(o)
         /\ proxyFn = o.proxyFn
    /\ retryOnRatelimit \in retryOpts
    /\ reqArgs \in [C -> argsSet]
    /\ pc = [c \in C |-> "idle"]
    /\ url = [c \in C |-> NoUrl]
    /\ attempt = [c \in C |-> 0]
    /\ inflight = [c \in C |-> None]
    /\ sent = [c \in C |-> << >>]
    /\ history = [c \in C |-> << >>]
    /\ results = [c \in C |-> << >>]
    /\ sleeps = [c \in C |-> << >>]
    /\ outcome = [c \in C |-> Pending]
    /\ GenOff
    /\ ErrIdle
    /\ SigIdle
    /\ RunIdle

InitClient(C, retryOpts, argsSet) ==
    InitClientOf(ClientOptions, C, retryOpts, argsSet)

\* one call on one client, every response
Init == InitClient({1}, RetryOptions, RequestArgs)

Next ==
    \/ Invoke(1)
    \/ \E r \in Responses, now \in NowValues : Respond(1, r, now)
    \/ TransportFails(1)
    \/ Wake(1)

Spec == Init /\ [][Next]_vars

\* several calls interleaved on one client, few responses
ConcCalls == 1..NumCalls
ConcArgs == { Args(USERS, POST, Some(BodyAB), None),
              Args(UPLOAD, POST, None, Some(OneFile)) }
ConcRetryOptions == {RetryFalse, RetryNum(1)}

InitConc == InitClient(ConcCalls, ConcRetryOptions, ConcArgs)

NextConc ==
    \E c \in ConcCalls :
        \/ Invoke(c)
        \/ \E r \in FewResponses : Respond(c, r, 100)
        \/ TransportFails(c)
        \/ Wake(c)

SpecConc == InitConc /\ [][NextConc]_vars

\* one call on a client whose base URL has a path, a query or a fragment,
\* with request paths and queries of every shape
UrlBases ==
    { <<"h", "t", "t", "p", "s", ":", "/", "/", "h">>,
      <<"h", "t", "t", "p", "s", ":", "/", "/", "h", "/", "v", "1">>,
      <<"h", "t", "t", "p", "s", ":", "/", "/", "h", "/", "v", "1", "/">>,
      <<"h", "t", "t", "p", "s", ":", "/", "/", "h", "/", "v", "1", "?", "k", "=", "1", "&", "k", "=", "2">>,
      <<"h", "t", "t", "p", "s", ":", "/", "/", "h", "/", "v", "1", "/", "?", "k", "=", "1", "#", "t", "o", "p">>,
      <<"h", "t", "t", "p", "s", ":", "/", "/", "h", "/", "v", "1", "#", "t", "o", "p">> }
UrlPaths ==
    { <<"/", "u", "s", "e", "r", "s">>,
      <<"u", "s", "e", "r", "s">>,
      <<"/">>, << >>,
      <<"/", "u", "s", "e", "r", "s", "/", "7">>,
      <<"/", ".", ".", "/", "x">>,
      <<"/", "/", "x", "/", "y">> }
\* requestOptions.query: absent, empty, and entries with a number, undefined
\* (None) and null
UrlQueries ==
    { None, Some(<< >>),
      Some(<< <<<<"a">>, Some(<<"1">>)>>, <<<<"b">>, None>>,
              <<<<"c">>, Some(<<"n", "u", "l", "l">>)>> >>) }
UrlOptions ==
    { [baseUrl |-> Some(b), headers |-> NoHeaders, authToken |-> None,
       proxyFn |-> FALSE] : b \in UrlBases }
UrlArgs == { ArgsQ(p, GET, None, None, q) : p \in UrlPaths, q \in UrlQueries }

InitUrl == InitClientOf(UrlOptions, {1}, ConcRetryOptions, UrlArgs)

NextUrl ==
    \/ Invoke(1)
    \/ \E r \in FewResponses : Respond(1, r, 100)
    \/ TransportFails(1)
    \/ Wake(1)

SpecUrl == InitUrl /\ [][NextUrl]_vars

\* one call on a client with a proxyFn that resolves with Responses and with
\* structured objects, ok given either way
ProxyOptions == { o \in ClientOptions : o.proxyFn }
ProxyResults ==
    { Structured(st[1], Hdr(None, None, None, ct), st[2], st[3], ok) :
        st \in { <<200, "object", ObjData>>, <<200, "string", ObjData>>,
                 <<500, "string", Garbage>> },
        ct \in {JsonType, None}, ok \in BOOLEAN }
    \cup { Structured(400, Hdr(None, None, Some(ZOD), ct), "object", ObjData,
                      ok) : ct \in {JsonType, None}, ok \in BOOLEAN }
    \cup { Structured(429, Hdr(Some(<<"5", "0">>), None, None, JsonType),
                      "object", ObjNoData, ok) : ok \in BOOLEAN }
    \cup { Structured(204, Hdr(None, None, None, None), kind, NoContent, ok) :
             kind \in {"undefined", "null", "string"}, ok \in BOOLEAN }

InitProxy == InitClientOf(ProxyOptions, {1}, ConcRetryOptions, ConcArgs)

NextProxy ==
    \/ Invoke(1)
    \/ \E r \in FewResponses : Respond(1, r, 100)
    \/ \E res \in ProxyResults : ProxyResponds(1, res, 100)
    \/ TransportFails(1)
    \/ Wake(1)

SpecProxy == InitProxy /\ [][NextProxy]_vars

----------------------------------------------------------------------------
(* Runtime client: properties *)

Last(s) == s[Len(s)]
Min(a, b) == IF a <= b THEN a ELSE b

RECURSIVE Leading429(_)
\* the number of 429 responses a response sequence begins with
Leading429(h) ==
    IF h = << >> \/ Head(h).status # 429 THEN 0
    ELSE 1 + Leading429(Tail(h))

\* an upper bound on the steps a call has left
Rank(c) ==
    LET m == (IF retryOnRatelimit.isNum THEN retryOnRatelimit.n ELSE 0) + 1
    IN  CASE pc[c] = "idle" -> 2 * m + 1
          [] pc[c] = "awaiting" -> 2 * (m - attempt[c])
          [] pc[c] = "sleeping" -> 2 * (m - attempt[c]) - 1
          [] pc[c] = "done" -> 0

\* C1: with retryOnRatelimit = N >= 0 (or false, counted as N = 0) a call
\* makes at most N+1 transport attempts and terminates: every step of the
\* call lowers a non-negative rank, so no call runs forever; with
\* retryOnRatelimit false a finished call has made exactly one attempt.
C1_AttemptsBoundedAndTerminates ==
    [][ (retryOnRatelimit.isNum => retryOnRatelimit.n >= 0) =>
          /\ Len(sent'[1]) <=
               (IF retryOnRatelimit.isNum THEN retryOnRatelimit.n ELSE 0) + 1
          /\ Rank(1)' < Rank(1)
          /\ Rank(1)' >= 0
          /\ (~retryOnRatelimit.isNum /\ pc'[1] = "done"
                => Len(sent'[1]) = 1) ]_vars

\* a call with N = MaxRetries used all N+1 attempts and ended
C1_Witness ==
    /\ retryOnRatelimit = RetryNum(MaxRetries)
    /\ pc[1] = "done"
    /\ Len(sent[1]) = MaxRetries + 1

\* the temporal part of C2: a response other than a 429 is the last one, no
\* attempt follows it, and the call has ended
NoAttemptAfter(c, i) ==
    /\ i = Len(history[c])
    /\ Len(sent[c]) = i
    /\ pc[c] = "done"

\* C2 as stated: a further attempt only right after a 429; every OK response
\* returns on its attempt, every other non-429 response raises on its attempt
C2_Original ==
    /\ \A i \in 2..Len(sent[1]) :
         i - 1 <= Len(history[1]) /\ history[1][i - 1].status = 429
    /\ \A i \in 1..Len(history[1]) :
         LET r == history[1][i]
         IN  /\ Ok(r) => NoAttemptAfter(1, i) /\ outcome[1].kind = "returned"
             /\ ~Ok(r) /\ r.status # 429 =>
                  NoAttemptAfter(1, i) /\ outcome[1].kind = "raised"

\* C2 (amended): a further attempt only right after a 429; every OK response
\* ends the call on its attempt, by returning or, when the body of an OK
\* response other than 204 is not JSON, by raising the parse error, or, when
\* that body is the JSON value null, by raising a TypeError; every other
\* non-429 response raises on its attempt
C2_RetryOnlyAfter429 ==
    /\ \A i \in 2..Len(sent[1]) :
         i - 1 <= Len(history[1]) /\ history[1][i - 1].status = 429
    /\ \A i \in 1..Len(history[1]) :
         LET r == history[1][i]
         IN  /\ Ok(r) =>
                  /\ NoAttemptAfter(1, i)
                  /\ IF r.status # 204 /\ r.body.parse = None
                     THEN outcome[1] = Raised("SyntaxError", NoInfo)
                     ELSE IF r.status # 204 /\ r.body.parse[1].isNull
                     THEN outcome[1] = Raised("TypeError", NoInfo)
                     ELSE outcome[1].kind = "returned"
             /\ ~Ok(r) /\ r.status # 429 =>
                  /\ NoAttemptAfter(1, i)
                  /\ outcome[1].kind = "raised"
                  /\ outcome[1].error \in {"RequestError", "ValidationError"}

\* a retrying client got a 500 on its first attempt and raised at once
C2_Witness ==
    /\ retryOnRatelimit = RetryNum(MaxRetries)
    /\ MaxRetries >= 1
    /\ Len(history[1]) = 1
    /\ history[1][1].status = 500
    /\ pc[1] = "done"
    /\ outcome[1].kind = "raised"

\* C3: with retryOnRatelimit = N >= 0 and a response sequence beginning with
\* k 429s, the call sleeps min(k, N) times, the i-th sleep being the wait
\* computed from the i-th response, each sleep followed by one retry, so a
\* finished call made min(k, N) retries and never slept after its final
\* attempt; with N = 1 and one 429 carrying x-ratelimit-reset-after: 50 the
\* one sleep is 50 ms and the call makes exactly two attempts.
C3_RetriesAndSleeps ==
    (retryOnRatelimit.isNum /\ retryOnRatelimit.n >= 0) =>
      LET n == retryOnRatelimit.n
          k == Leading429(history[1])
      IN  /\ Len(sleeps[1]) = Min(k, n)
          /\ \A i \in 1..Len(sleeps[1]) :
               \E now \in NowValues :
                  sleeps[1][i] = WaitTime(history[1][i], now)
          /\ pc[1] = "sleeping" => Len(sent[1]) = Len(sleeps[1])
          /\ pc[1] \in {"awaiting", "done"} =>
                Len(sent[1]) = Len(sleeps[1]) + 1
          /\ pc[1] = "done" => Len(sent[1]) - 1 = Min(k, n)
          /\ (n = 1 /\ k >= 1
                /\ history[1][1].hdr.resetAfter = Some(<<"5", "0">>)) =>
               /\ sleeps[1] = <<Num(50)>>
               /\ pc[1] = "done" => Len(sent[1]) = 2

\* N = 1, a 429 with x-ratelimit-reset-after: 50, then a second 429: one
\* sleep of 50 ms, one retry, and the second 429 is raised
C3_Witness ==
    /\ retryOnRatelimit = RetryNum(1)
    /\ pc[1] = "done"
    /\ Len(history[1]) = 2
    /\ history[1][1].hdr.resetAfter = Some(<<"5", "0">>)
    /\ history[1][2].status = 429
    /\ sleeps[1] = <<Num(50)>>
    /\ Len(sent[1]) = 2

\* C4 as stated: every wait handed to sleep is a number within [0, 300000];
\* it is the x-ratelimit-reset-after value when that header is present with
\* a value within the range, else max(0, x-ratelimit-reset - now) when that
\* header is present, else 1000
C4_WaitWithinRange ==
    \A i \in 1..Len(sleeps[1]) :
        LET w == sleeps[1][i]
            h == history[1][i].hdr
        IN  /\ ~w.nan
            /\ w.v >= 0
            /\ w.v <= 300000
            /\ (h.resetAfter # None /\ ~ParseInt(h.resetAfter[1]).nan
                  /\ ParseInt(h.resetAfter[1]).v \in 0..300000) =>
                 w.v = ParseInt(h.resetAfter[1]).v
            /\ (h.resetAfter = None /\ h.reset # None
                  /\ ~ParseInt(h.reset[1]).nan) =>
                 \E now \in NowValues :
                    w = MathMax(Num(0), Num(ParseInt(h.reset[1]).v - now))
            /\ (h.resetAfter = None /\ h.reset = None) => w.v = 1000

\* C5 as stated: a response that is not retried raises ValidationError
\* exactly when its status is 400, x-bad-request-type is 'zod' ignoring case
\* and the parsed body has a data field, else RequestError
C5_Original ==
    (pc[1] = "done" /\ history[1] # << >> /\ Len(history[1]) = Len(sent[1])
       /\ ~Ok(Last(history[1]))) =>
      LET r == Last(history[1])
          b == ParsedBodyOf(r)
          validation ==
            /\ r.status = 400
            /\ r.hdr.badType # None
            /\ ToLowerCase(r.hdr.badType[1]) = ZOD
            /\ b.isObj
            /\ "data" \in DOMAIN b.obj
      IN  outcome[1].error =
            (IF validation THEN "ValidationError" ELSE "RequestError")

\* C5 (amended): a response that is not retried raises ValidationError
\* exactly when its status is 400, x-bad-request-type is 'zod' ignoring case
\* and the parsed body has a truthy data field, else RequestError; the error
\* carries the response's status, headers and parsed body, the URL of the
\* call and its method in upper case.
C5_ErrorClassification ==
    (pc[1] = "done" /\ history[1] # << >> /\ Len(history[1]) = Len(sent[1])
       /\ ~Ok(Last(history[1]))) =>
      LET r == Last(history[1])
          b == ParsedBodyOf(r)
          validation ==
            /\ r.status = 400
            /\ r.hdr.badType # None
            /\ ToLowerCase(r.hdr.badType[1]) = ZOD
            /\ b.isObj
            /\ "data" \in DOMAIN b.obj
            /\ Truthy(b.obj["data"])
      IN  /\ outcome[1].kind = "raised"
          /\ outcome[1].error =
               (IF validation THEN "ValidationError" ELSE "RequestError")
          /\ outcome[1].info # None
          /\ outcome[1].info[1].status = r.status
          /\ outcome[1].info[1].headers = r.hdr
          /\ outcome[1].info[1].body = b
          /\ outcome[1].info[1].url = url[1]
          /\ outcome[1].info[1].method = ToUpperCase(reqArgs[1].method)

\* a 400 with x-bad-request-type: ZOD raised ValidationError, on a call whose
\* method was given in lower case
C5_Witness ==
    /\ pc[1] = "done"
    /\ outcome[1].error = "ValidationError"
    /\ Last(history[1]).hdr.badType = Some(<<"Z", "O", "D">>)
    /\ reqArgs[1].method # ToUpperCase(reqArgs[1].method)

\* C6 as stated: with files the outgoing request, direct or through proxyFn,
\* has a multipart body and no Content-Type header; without files and with
\* a body it has a JSON body and the JSON Content-Type header
C6_MultipartDropsContentType ==
    \A i \in 1..Len(sent[1]) :
        LET o == sent[1][i]
            a == reqArgs[1]
        IN  /\ a.files # None =>
                 /\ o.body.kind = "multipart"
                 /\ ~("Content-Type" \in DOMAIN o.headers)
            /\ (a.files = None /\ a.body # None) =>
                 /\ o.body.kind = "json"
                 /\ "Content-Type" \in DOMAIN o.headers
                 /\ o.headers["Content-Type"] = APPLICATION_JSON

\* C7: in every interleaving of the calls made on one client, a step changes
\* neither the captured base URL nor the shared default headers and touches
\* the state of one call only (its own retry counter included); every
\* request a call sent is the one the captured configuration and the call's
\* own arguments give, and a finished call's number of attempts and outcome
\* are those its own responses give.
C7_CallsIndependent ==
    [][ /\ baseUrl' = baseUrl
        /\ defaultHeaders' = defaultHeaders
        /\ \E c \in ConcCalls : \A d \in ConcCalls \ {c} :
              /\ pc'[d] = pc[d]
              /\ attempt'[d] = attempt[d]
              /\ url'[d] = url[d]
              /\ sent'[d] = sent[d]
              /\ history'[d] = history[d]
              /\ sleeps'[d] = sleeps[d]
              /\ outcome'[d] = outcome[d]
        /\ \A c \in ConcCalls :
              /\ \A i \in 1..Len(sent'[c]) :
                    sent'[c][i] =
                      Outgoing(defaultHeaders, proxyFn,
                               BuildUrl(baseUrl, reqArgs[c]), reqArgs[c])
              /\ pc'[c] = "done" =>
                    /\ Len(sent'[c]) =
                         1 + Min(Leading429(history'[c]),
                                 IF retryOnRatelimit.isNum
                                 THEN retryOnRatelimit.n ELSE 0)
                    /\ outcome'[c] =
                         (IF Len(history'[c]) = Len(sent'[c])
                          THEN OutcomeOf(Last(history'[c]),
                                         BuildUrl(baseUrl, reqArgs[c]),
                                         reqArgs[c])
                          ELSE Raised("TypeError", NoInfo)) ]_vars

\* a multipart call and a JSON call ran interleaved, both retried, and the
\* JSON call still sent the Content-Type header on its retry
C7_Witness ==
    /\ reqArgs[1].files # None
    /\ reqArgs[2].files = None
    /\ pc[1] = "sleeping"
    /\ Len(sent[1]) = 1
    /\ Len(sent[2]) = 2
    /\ "Content-Type" \in DOMAIN sent[2][2].headers
    /\ pc[2] = "done"

\* C11: the final URL of a call has as path the base URL's path followed by
\* the request path, whatever the trailing slash of the one and the leading
\* slash of the other, as query the base URL's parameters followed by the
\* request's query entries in order, those with an undefined value left out,
\* and as fragment the base URL's fragment
C11_FinalUrl ==
    pc[1] # "idle" =>
      LET b == ParseAbsolute(baseUrl)
          a == reqArgs[1]
          basePath == IF EndsWith(b.pathname, <<"/">>)
                      THEN SubSeq(b.pathname, 1, Len(b.pathname) - 1)
                      ELSE b.pathname
          reqPath == IF StartsWith(a.path, <<"/">>) THEN Tail(a.path)
                     ELSE a.path
          given == IF a.query = None THEN << >>
                   ELSE SelectSeq(a.query[1], LAMBDA e : e[2] # None)
      IN  /\ url[1].pathname = basePath \o <<"/">> \o reqPath
          /\ url[1].params =
               SearchParams(b.query)
                 \o [i \in 1..Len(given) |-> <<given[i][1], given[i][2][1]>>]
          /\ url[1].hash = b.hash

DirectOf(res) ==
    Resp(res.status, res.hdr,
         IF res.bodyKind \in {"null", "undefined"} THEN NoContent
         ELSE res.body)

\* C13: a call dispatched through proxyFn, whether the proxy resolves with
\* a Response or with a structured object, ends and retries as a direct call
\* does on responses with the same status, headers and body: the same sleeps
\* after the same 429s, and the same returned value or the same error with
\* the same fields
C13_ProxySameAsDirect ==
    (proxyFn /\ results[1] # << >> /\ Len(results[1]) = Len(sent[1])
       /\ pc[1] \in {"sleeping", "done"}) =>
      LET ds == [i \in 1..Len(results[1]) |-> DirectOf(results[1][i])]
          n == IF retryOnRatelimit.isNum THEN retryOnRatelimit.n ELSE 0
      IN  /\ Len(sleeps[1]) = Min(Leading429(ds), n)
          /\ \A i \in 1..Len(sleeps[1]) : sleeps[1][i] = WaitTime(ds[i], 100)
          /\ pc[1] = "sleeping" <=>
               ShouldRetry(Last(ds), retryOnRatelimit, attempt[1])
          /\ pc[1] = "done" =>
               outcome[1] = OutcomeOf(Last(ds), url[1], reqArgs[1])

\* C18: for every value of retryOnRatelimit a finished call made at least
\* one transport attempt and never raised the error that follows the retry
\* loop: exceptions of the transport and of response.json() aside, it ended
\* by returning a value or by raising RequestError or ValidationError
C18_LoopAlwaysYieldsResult ==
    pc[1] = "done" =>
      /\ Len(sent[1]) >= 1
      /\ outcome[1] # Raised("Error", NoInfo)
      /\ (outcome[1].kind = "raised"
            /\ outcome[1].error \notin {"SyntaxError", "TypeError"}) =>
           outcome[1].error \in {"RequestError", "ValidationError"}

----------------------------------------------------------------------------
(* Generator: routes *)

SLASH == "/"
COLON == ":"
DOLLAR == <<"$">>
PARAMS == <<"p", "a", "r", "a", "m", "s">>

\* a route as fetched: path, optional methods, optional schema (its keys in
\* order, each with the kind of its value), optional settings
RawRoute(p, ms, sch, st) == [path |-> p, methods |-> ms, schema |-> sch,
                             settings |-> st]
Settings(dis, mdis) == [disabled |-> dis, methodDisabled |-> mdis]

P_root == <<"/">>
P_u == <<"/", "u">>
P_ui == <<"/", "u", "/", ":", "i">>
P_uj == <<"/", "u", "/", ":", "j">>
P_uia == <<"/", "u", "/", ":", "i", "/", "a">>
P_uja == <<"/", "u", "/", ":", "j", "/", "a">>
P_uiaj == <<"/", "u", "/", ":", "i", "/", "a", "/", ":", "j">>
P_uiai == <<"/", "u", "/", ":", "i", "/", "a", "/", ":", "i">>
P_uget == <<"/", "u", "/", "g", "e", "t">>
P_ua == <<"/", "u", "/", "a">>

\* the routes a fetched list is drawn from
RouteCandidates ==
    { RawRoute(P_root, Some(<<GET>>), None, None),
      RawRoute(P_u, Some(<<GET>>), None, None),
      RawRoute(P_ui, Some(<<GET, DELETE>>), None, None),
      RawRoute(P_uia, Some(<<GET>>), None, None),
      RawRoute(P_uja, Some(<<GET>>), None, None),
      RawRoute(P_uiaj, Some(<<DELETE>>), None, None),
      RawRoute(P_uiai, Some(<<GET>>), None, None),
      RawRoute(P_uget, Some(<<GET>>), None, None),
      RawRoute(P_ui, Some(<<GET, DELETE>>), None,
               Some(Settings(FALSE, {DELETE}))),
      RawRoute(P_ua, Some(<<GET>>), None, Some(Settings(TRUE, {}))),
      RawRoute(P_ua, Some(<<GET>>), None, Some(Settings(FALSE, {GET}))),
      RawRoute(P_u, None,
               Some(<< <<GET, "object">>, <<PARAMS, "object">>,
                       <<POST, "null">>, <<DELETE, "string">> >>), None),
      RawRoute(P_uj, Some(<< >>), Some(<< <<PARAMS, "object">> >>), None),
      RawRoute(P_ua, None, Some(<< <<PARAMS, "null">> >>), None),
      RawRoute(P_ua, None, None, None) }

RECURSIVE SeqsUpTo(_, _)
\* the sequences over S of length at most n
SeqsUpTo(S, n) ==
    IF n = 0 THEN { << >> }
    ELSE LET shorter == SeqsUpTo(S, n - 1)
         IN  shorter \cup { Append(q, x) : q \in shorter, x \in S }

----------------------------------------------------------------------------
(* Generator: processRoutes *)

RECURSIVE MethodKeys(_)
\* Object.keys(schema).filter(...): the keys other than params whose value
\* is a non-null object, in key order
MethodKeys(es) ==
    IF es = << >> THEN << >>
    ELSE IF Head(es)[1] # PARAMS /\ Head(es)[2] = "object"
         THEN <<Head(es)[1]>> \o MethodKeys(Tail(es))
         ELSE MethodKeys(Tail(es))

\* the method list derived from schema || {}
DerivedMethods(route) ==
    MethodKeys(IF route.schema # None THEN route.schema[1] ELSE << >>)

\* a method list always derived from the schema
AvailableMethodsDerivedOnly(route) == DerivedMethods(route)

\* availableMethods before the empty-list rule
AvailableMethods(route) ==
    IF route.methods # None /\ Len(route.methods[1]) > 0
    THEN route.methods[1]
    ELSE DerivedMethods(route)

\* hasParams: schema && typeof schema.params === 'object'
HasParams(route) ==
    /\ route.schema # None
    /\ \E i \in 1..Len(route.schema[1]) :
          /\ route.schema[1][i][1] = PARAMS
          /\ route.schema[1][i][2] \in {"object", "null"}

\* a settings test that finds no route disabled
RouteDisabledNever(route) == FALSE

\* settings?.disabled
RouteDisabled(route) == route.settings # None /\ route.settings[1].disabled

\* the processed route of one fetched route, or nothing when it is dropped
ProcessRoute(route) ==
    IF RouteDisabled(route) THEN << >>
    ELSE LET am == AvailableMethods(route)
         IN  IF Len(am) = 0
             THEN IF ~HasParams(route) THEN << >>
                  ELSE << [route EXCEPT !.methods = <<GET>>] >>
             ELSE << [route EXCEPT !.methods = am] >>

RECURSIVE ProcessRoutes(_)
\* processRoutes(routes).routes
ProcessRoutes(rs) ==
    IF rs = << >> THEN << >>
    ELSE ProcessRoute(Head(rs)) \o ProcessRoutes(Tail(rs))

----------------------------------------------------------------------------
(* Generator: buildCompleteTree *)

RECURSIVE SplitFrom(_, _)
\* path.split('/'): the pieces between slashes, cur being the piece so far
SplitFrom(p, cur) ==
    IF p = << >> THEN <<cur>>
    ELSE IF Head(p) = SLASH THEN <<cur>> \o SplitFrom(Tail(p), << >>)
    ELSE SplitFrom(Tail(p), Append(cur, Head(p)))

RECURSIVE FilterNonEmpty(_)
\* .filter(Boolean) on strings
FilterNonEmpty(ps) ==
    IF ps = << >> THEN << >>
    ELSE IF Head(ps) # << >> THEN <<Head(ps)>> \o FilterNonEmpty(Tail(ps))
    ELSE FilterNonEmpty(Tail(ps))

\* segments
Segments(path) == FilterNonEmpty(SplitFrom(path, << >>))

\* segment.startsWith(':')
IsParamSegment(seg) == Len(seg) >= 1 /\ seg[1] = COLON

\* paramName, with the colon kept
ParamNameKeepColon(seg) == seg

\* paramName = segment.slice(1)
ParamName(seg) == Tail(seg)

EmptyNode == [static |-> << >>, params |-> << >>, methods |-> << >>]
\* a node is named by the edges that lead to it from the root
Root == << >>
StaticEdge(name) == [kind |-> "static", name |-> name]
ParamEdge(name) == [kind |-> "param", name |-> name]
EmptyTree == [n \in {Root} |-> EmptyNode]

\* Map.has on a map given as its keys in insertion order
Has(keys, k) == \E i \in 1..Len(keys) : keys[i] = k

\* a settings test that finds no method disabled
MethodDisabledNever(route, method) == FALSE

\* settings?.[method]?.disabled
MethodDisabled(route, method) ==
    route.settings # None /\ method \in route.settings[1].methodDisabled

\* node.methods.set(method, route): a present key keeps its position
MethodsSet(ms, method, route) ==
    IF \E i \in 1..Len(ms) : ms[i].method = method
    THEN [i \in 1..Len(ms) |->
            IF ms[i].method = method
            THEN [method |-> method, route |-> route] ELSE ms[i]]
    ELSE Append(ms, [method |-> method, route |-> route])

RECURSIVE RegisterMethods(_, _, _)
\* route.methods.forEach at the leaf
RegisterMethods(ms, methods, route) ==
    IF methods = << >> THEN ms
    ELSE RegisterMethods(
            IF ~MethodDisabled(route, Head(methods))
            THEN MethodsSet(ms, Head(methods), route) ELSE ms,
            Tail(methods), route)

\* the child always replaced by a fresh node
EnsureChildAlwaysNew(t, node, kind, name) ==
    LET edge == IF kind = "param" THEN ParamEdge(name) ELSE StaticEdge(name)
        child == Append(node, edge)
        keys == IF kind = "param" THEN t[node].params ELSE t[node].static
        keys2 == IF Has(keys, name) THEN keys ELSE Append(keys, name)
        t1 == IF kind = "param" THEN [t EXCEPT ![node].params = keys2]
              ELSE [t EXCEPT ![node].static = keys2]
    IN  [n \in (DOMAIN t1 \cup {child}) |->
            IF n = child THEN EmptyNode ELSE t1[n]]

\* a new key put in front of the keys the map already has
EnsureChildPrepend(t, node, kind, name) ==
    LET edge == IF kind = "param" THEN ParamEdge(name) ELSE StaticEdge(name)
        child == Append(node, edge)
        keys == IF kind = "param" THEN t[node].params ELSE t[node].static
    IN  IF Has(keys, name) THEN t
        ELSE LET t1 == IF kind = "param"
                       THEN [t EXCEPT ![node].params = <<name>> \o @]
                       ELSE [t EXCEPT ![node].static = <<name>> \o @]
             IN  [n \in (DOMAIN t1 \cup {child}) |->
                    IF n = child THEN EmptyNode ELSE t1[n]]

\* if (!map.has(name)) map.set(name, empty node)
EnsureChild(t, node, kind, name) ==
    LET edge == IF kind = "param" THEN ParamEdge(name) ELSE StaticEdge(name)
        child == Append(node, edge)
        keys == IF kind = "param" THEN t[node].params ELSE t[node].static
    IN  IF Has(keys, name) THEN t
        ELSE LET t1 == IF kind = "param"
                       THEN [t EXCEPT ![node].params = Append(@, name)]
                       ELSE [t EXCEPT ![node].static = Append(@, name)]
             IN  [n \in (DOMAIN t1 \cup {child}) |->
                    IF n = child THEN EmptyNode ELSE t1[n]]

RECURSIVE InsertRoute(_, _, _, _, _)
\* insertRoute(node, segments, segmentIndex, route); i is segmentIndex + 1
InsertRoute(t, node, segments, i, route) ==
    IF i > Len(segments)
    THEN [t EXCEPT ![node].methods = RegisterMethods(@, route.methods, route)]
    ELSE LET segment == segments[i]
         IN  IF IsParamSegment(segment)
             THEN LET paramName == ParamName(segment)
                  IN  InsertRoute(EnsureChild(t, node, "param", paramName),
                                  Append(node, ParamEdge(paramName)),
                                  segments, i + 1, route)
             ELSE InsertRoute(EnsureChild(t, node, "static", segment),
                              Append(node, StaticEdge(segment)),
                              segments, i + 1, route)

----------------------------------------------------------------------------
(* Generator: generateFromTree *)

\* the characters \w matches
WordChars == {p[1] : p \in CasePairs} \cup {p[2] : p \in CasePairs}
             \cup Digits \cup {"_"}

RECURSIVE WordPrefix(_)
\* the longest prefix of s made of word characters
WordPrefix(s) ==
    IF s = << >> \/ ~(Head(s) \in WordChars) THEN << >>
    ELSE <<Head(s)>> \o WordPrefix(Tail(s))

Lit(c) == [kind |-> "lit", text |-> <<c>>]
Var(name) == [kind |-> "var", text |-> name]

RECURSIVE PathTemplate(_)
\* route.path.replace(/:(\w+)/g, '${name}'): the template literal's parts
PathTemplate(p) ==
    IF p = << >> THEN << >>
    ELSE IF Head(p) = COLON /\ WordPrefix(Tail(p)) # << >>
    THEN LET name == WordPrefix(Tail(p))
         IN  <<Var(name)>> \o PathTemplate(SubSeq(p, Len(name) + 2, Len(p)))
    ELSE <<Lit(Head(p))>> \o PathTemplate(Tail(p))

\* one entry of an emitted object literal
MethodEntry(key, tpl, method, path, acc) ==
    [key |-> key, kind |-> "method", param |-> << >>, template |-> tpl,
     method |-> method, path |-> path, acc |-> acc, body |-> << >>]
ObjectEntry(key, body) ==
    [key |-> key, kind |-> "object", param |-> << >>, template |-> << >>,
     method |-> << >>, path |-> << >>, acc |-> << >>, body |-> body]
FunctionEntry(param, body) ==
    [key |-> DOLLAR, kind |-> "function", param |-> param,
     template |-> << >>, method |-> << >>, path |-> << >>, acc |-> << >>,
     body |-> body]

RECURSIVE GenerateFromTree(_, _, _)
\* generateFromTree(node, indent, accumulatedParams): the entries of the
\* object literal, in the order they are written
GenerateFromTree(t, node, accumulatedParams) ==
    LET n == t[node]
        methods ==
          [i \in 1..Len(n.methods) |->
             MethodEntry(ToLowerCase(n.methods[i].method),
                         PathTemplate(n.methods[i].route.path),
                         ToUpperCase(n.methods[i].method),
                         n.methods[i].route.path, accumulatedParams)]
        statics ==
          [i \in 1..Len(n.static) |->
             ObjectEntry(n.static[i],
                         GenerateFromTree(t,
                            Append(node, StaticEdge(n.static[i])),
                            accumulatedParams))]
        params ==
          [i \in 1..Len(n.params) |->
             FunctionEntry(n.params[i],
                           GenerateFromTree(t,
                              Append(node, ParamEdge(n.params[i])),
                              Append(accumulatedParams, n.params[i])))]
    IN  methods \o statics \o params

\* one entry of the emitted interface: a method signature, the object type
\* of a static child, the $ callable of a parameter child
InterfaceEntry(key, kind, param, body) ==
    [key |-> key, kind |-> kind, param |-> param, body |-> body]

RECURSIVE GenerateInterfaceFromTree(_, _, _)
\* generateInterfaceFromTree(node, indent, accumulatedParams): the
\* signatures, in the order they are pushed; a child without signatures is
\* left out
GenerateInterfaceFromTree(t, node, accumulatedParams) ==
    LET n == t[node]
        methods ==
          [i \in 1..Len(n.methods) |->
             InterfaceEntry(ToLowerCase(n.methods[i].method), "method",
                            << >>, << >>)]
        RECURSIVE Statics(_)
        Statics(keys) ==
            IF keys = << >> THEN << >>
            ELSE LET childSigs ==
                       GenerateInterfaceFromTree(t,
                          Append(node, StaticEdge(Head(keys))),
                          accumulatedParams)
                 IN  (IF childSigs # << >>
                      THEN <<InterfaceEntry(Head(keys), "object", << >>,
                                            childSigs)>>
                      ELSE << >>) \o Statics(Tail(keys))
        RECURSIVE Params(_)
        Params(keys) ==
            IF keys = << >> THEN << >>
            ELSE LET childSigs ==
                       GenerateInterfaceFromTree(t,
                          Append(node, ParamEdge(Head(keys))),
                          Append(accumulatedParams, Head(keys)))
                 IN  (IF childSigs # << >>
                      THEN <<InterfaceEntry(DOLLAR, "function", Head(keys),
                                            childSigs)>>
                      ELSE << >>) \o Params(Tail(keys))
    IN  methods \o Statics(n.static) \o Params(n.params)

----------------------------------------------------------------------------
(* Generator: the emitted object evaluated as JavaScript *)

\* obj[key] of an object literal: the last entry written with that key
Lookup(entries, key) ==
    LET idx == {i \in 1..Len(entries) : entries[i].key = key}
    IN  IF idx = {} THEN None
        ELSE Some(entries[CHOOSE i \in idx : \A j \in idx : j <= i])

\* the variable name in the scope env: the innermost binding
Binding(env, name) ==
    LET idx == {i \in 1..Len(env) : env[i].name = name}
    IN  IF idx = {} THEN None
        ELSE Some(env[CHOOSE i \in idx : \A j \in idx : j <= i].value)

RECURSIVE TemplateValue(_, _)
\* the string a template literal evaluates to in env; None when a variable
\* is not bound
TemplateValue(tpl, env) ==
    IF tpl = << >> THEN Some(<< >>)
    ELSE LET rest == TemplateValue(Tail(tpl), env)
             h == Head(tpl)
             v == IF h.kind = "lit" THEN Some(h.text)
                  ELSE Binding(env, h.text)
         IN  IF rest = None \/ v = None THEN None
             ELSE Some(v[1] \o rest[1])

RequestFnCall(path, method) == [kind |-> "requestFn", path |-> path,
                                method |-> method]
Thrown(e) == [kind |-> e, path |-> << >>, method |-> << >>]

KeyStep(k) == [op |-> "key", key |-> k, arg |-> << >>]
ParamStep(v) == [op |-> "param", key |-> DOLLAR, arg |-> v]
MethodStep(k) == [op |-> "method", key |-> k, arg |-> << >>]

RECURSIVE Eval(_, _, _)
\* following the steps of a call chain from an object with these entries
Eval(entries, chain, env) ==
    LET step == Head(chain)
        found == Lookup(entries, step.key)
    IN  IF found = None THEN Thrown("TypeError")
        ELSE LET e == found[1]
             IN  CASE step.op = "key" /\ e.kind = "object" /\ Len(chain) > 1 ->
                        Eval(e.body, Tail(chain), env)
                   [] step.op = "param" /\ e.kind = "function"
                        /\ Len(chain) > 1 ->
                        Eval(e.body, Tail(chain),
                             Append(env, [name |-> e.param,
                                          value |-> step.arg]))
                   [] step.op = "method" /\ e.kind = "method"
                        /\ Len(chain) = 1 ->
                        LET path == TemplateValue(e.template, env)
                        IN  IF path = None THEN Thrown("ReferenceError")
                            ELSE RequestFnCall(path[1], e.method)
                   [] OTHER -> Thrown("TypeError")

RECURSIVE SegmentSteps(_, _)
\* one step per path segment: the key of a literal segment, or $ applied to
\* the next argument for a parameter segment
SegmentSteps(segs, args) ==
    IF segs = << >> THEN << >>
    ELSE IF IsParamSegment(Head(segs))
    THEN <<ParamStep(Head(args))>> \o SegmentSteps(Tail(segs), Tail(args))
    ELSE <<KeyStep(Head(segs))>> \o SegmentSteps(Tail(segs), args)

\* the call chain of the leaf (path, method) with these arguments
ChainOf(path, method, args) ==
    SegmentSteps(Segments(path), args) \o <<MethodStep(ToLowerCase(method))>>

\* the leaves of a tree: the entries of the methods maps of its nodes
Leaves(t) ==
    UNION { { [node |-> n, method |-> t[n].methods[i].method,
               route |-> t[n].methods[i].route] :
                 i \in 1..Len(t[n].methods) } : n \in DOMAIN t }

\* the values passed to the $ callables
ArgValues == { <<"7">>, <<"8">> }

\* the number of parameter segments of a path
ParamCount(path) ==
    Cardinality({i \in 1..Len(Segments(path)) :
                    IsParamSegment(Segments(path)[i])})

----------------------------------------------------------------------------
(* Generator: the steps of a generation run *)

\* the runtime client's variables while the generator is modelled
RtIdle ==
    /\ baseUrl = << >>
    /\ defaultHeaders = NoHeaders
    /\ retryOnRatelimit = RetryFalse
    /\ proxyFn = FALSE
    /\ pc = << >>
    /\ reqArgs = << >>
    /\ url = << >>
    /\ attempt = << >>
    /\ inflight = << >>
    /\ sent = << >>
    /\ history = << >>
    /\ results = << >>
    /\ sleeps = << >>
    /\ outcome = << >>

\* the schema was fetched
InitGen ==
    /\ gpc = "fetched"
    /\ rawRoutes \in SeqsUpTo(RouteCandidates, MaxRoutes)
    /\ routes = << >>
    /\ tree = EmptyTree
    /\ nextRoute = 0
    /\ emitted = << >>
    /\ apiInterface = << >>
    /\ invoked = << >>
    /\ RtIdle
    /\ ErrIdle
    /\ SigIdle
    /\ RunIdle

\* processRoutes, and buildCompleteTree creates the root
Normalize ==
    /\ gpc = "fetched"
    /\ routes' = ProcessRoutes(rawRoutes)
    /\ tree' = EmptyTree
    /\ nextRoute' = 1
    /\ gpc' = "building"
    /\ UNCHANGED <<rawRoutes, emitted, apiInterface, invoked>>
    /\ UNCHANGED <<rtVars, errVars, sigVars, runVars>>

\* one round of routes.forEach in buildCompleteTree
InsertNext ==
    /\ gpc = "building"
    /\ nextRoute <= Len(routes)
    /\ tree' = InsertRoute(tree, Root, Segments(routes[nextRoute].path), 1,
                           routes[nextRoute])
    /\ nextRoute' = nextRoute + 1
    /\ UNCHANGED <<gpc, rawRoutes, routes, emitted, apiInterface, invoked>>
    /\ UNCHANGED <<rtVars, errVars, sigVars, runVars>>

\* the tree is returned and generateFromTree walks it
Emit ==
    /\ gpc = "building"
    /\ nextRoute > Len(routes)
    /\ emitted' = GenerateFromTree(tree, Root, << >>)
    /\ apiInterface' = GenerateInterfaceFromTree(tree, Root, << >>)
    /\ gpc' = "emitted"
    /\ UNCHANGED <<rawRoutes, routes, tree, nextRoute, invoked>>
    /\ UNCHANGED <<rtVars, errVars, sigVars, runVars>>

\* a user follows the call chain of leaf l on the emitted object
CallLeaf(l, args) ==
    /\ gpc = "emitted"
    /\ l \in Leaves(tree)
    /\ Len(args) = ParamCount(l.route.path)
    /\ invoked' = [path |-> l.route.path, method |-> l.method, args |-> args,
                   result |-> Eval(emitted,
                                   ChainOf(l.route.path, l.method, args),
                                   << >>)]
    /\ gpc' = "called"
    /\ UNCHANGED <<rawRoutes, routes, tree, nextRoute, emitted, apiInterface>>
    /\ UNCHANGED <<rtVars, errVars, sigVars, runVars>>

NextGen ==
    \/ Normalize
    \/ InsertNext
    \/ Emit
    \/ \E l \in Leaves(tree), args \in SeqsUpTo(ArgValues, 2) :
          CallLeaf(l, args)

SpecGen == InitGen /\ [][NextGen]_vars

----------------------------------------------------------------------------
(* Generator: properties *)

RECURSIVE ScopeOf(_, _)
\* the bindings made by applying $ to args along the parameter segments
ScopeOf(segs, args) ==
    IF segs = << >> THEN << >>
    ELSE IF Head(segs)[1] = COLON
    THEN <<[name |-> SubSeq(Head(segs), 2, Len(Head(segs))),
            value |-> Head(args)]>> \o ScopeOf(Tail(segs), Tail(args))
    ELSE ScopeOf(Tail(segs), args)

\* C8 as stated: the call chain of every leaf of the tree (the key of each
\* literal segment, $ applied to one argument for each parameter segment,
\* then the lower-cased method) reaches a callable of the emitted object,
\* and calling it invokes the request function with the route's path, its
\* parameters replaced by the arguments bound to their names, and the
\* upper-cased method
C8_EveryLeafCallable ==
    gpc = "called" =>
        /\ invoked.result.kind = "requestFn"
        /\ invoked.result.method = ToUpperCase(invoked.method)
        /\ Some(invoked.result.path) =
             TemplateValue(PathTemplate(invoked.path),
                           ScopeOf(Segments(invoked.path), invoked.args))

\* the (path, method) pairs of the leaves
LeafPairs(t) == { <<l.route.path, l.method>> : l \in Leaves(t) }

RECURSIVE WalkLeaves(_, _)
\* the (path, method) pairs of the leaves, enumerated by walking the tree
\* from node: methods, then static children, then parameter children
WalkLeaves(t, node) ==
    LET n == t[node]
        own == [i \in 1..Len(n.methods) |->
                  <<n.methods[i].route.path, n.methods[i].method>>]
        RECURSIVE Children(_, _)
        Children(keys, kind) ==
            IF keys = << >> THEN << >>
            ELSE WalkLeaves(t, Append(node,
                                IF kind = "param" THEN ParamEdge(Head(keys))
                                ELSE StaticEdge(Head(keys))))
                 \o Children(Tail(keys), kind)
    IN  own \o Children(n.static, "static") \o Children(n.params, "param")

NoDuplicates(q) == \A i, j \in 1..Len(q) : q[i] = q[j] => i = j
Range(q) == {q[i] : i \in 1..Len(q)}

\* the tree holds every route of the normalized list
TreeBuilt == gpc \in {"emitted", "called"}

\* the (path, method) pairs of a route list
PairsOf(rs) ==
    UNION { { <<rs[i].path, rs[i].methods[j]>> :
                j \in 1..Len(rs[i].methods) } : i \in 1..Len(rs) }

\* those pairs whose method the route's settings do not disable
EnabledPairsOf(rs) ==
    UNION { { <<rs[i].path, rs[i].methods[j]>> :
                j \in { k \in 1..Len(rs[i].methods) :
                          ~(/\ rs[i].settings # None
                            /\ rs[i].methods[k] \in
                                 rs[i].settings[1].methodDisabled) } } :
            i \in 1..Len(rs) }

\* C9 as stated: the leaves enumerated from the built tree are exactly the
\* (path, method) pairs of the normalized route list, none twice
C9_Original ==
    TreeBuilt =>
        /\ NoDuplicates(WalkLeaves(tree, Root))
        /\ Range(WalkLeaves(tree, Root)) = PairsOf(routes)

\* C9 (amended): the leaves enumerated from the built tree are exactly the
\* (path, method) pairs of the normalized route list whose method is not
\* disabled by the route's settings[method].disabled, none twice
C9_LeavesAreEnabledPairs ==
    TreeBuilt =>
        /\ NoDuplicates(WalkLeaves(tree, Root))
        /\ Range(WalkLeaves(tree, Root)) = EnabledPairsOf(routes)
        /\ Range(WalkLeaves(tree, Root)) = LeafPairs(tree)

\* two routes sharing a prefix were inserted, one with a disabled method,
\* and the tree has the three remaining leaves
C9_Witness ==
    /\ TreeBuilt
    /\ Len(routes) = 2
    /\ routes[1].path = P_u
    /\ routes[2].path = P_ui
    /\ routes[2].settings # None
    /\ DELETE \in routes[2].settings[1].methodDisabled
    /\ Cardinality(LeafPairs(tree)) = 2
    /\ Cardinality(PairsOf(routes)) = 3

RECURSIVE ScopedMethods(_, _)
\* the method entries of an emitted object, each with the parameter names
\* bound by the $ callables that enclose it, outermost first
ScopedMethods(entries, scope) ==
    UNION { IF entries[i].kind = "method"
            THEN { [scope |-> scope, entry |-> entries[i]] }
            ELSE IF entries[i].kind = "function"
            THEN ScopedMethods(entries[i].body,
                               Append(scope, entries[i].param))
            ELSE ScopedMethods(entries[i].body, scope) :
            i \in 1..Len(entries) }

RECURSIVE ColonNames(_)
\* the names of the :name segments of a segment list, in order
ColonNames(segs) ==
    IF segs = << >> THEN << >>
    ELSE IF Head(segs)[1] = COLON
    THEN <<SubSeq(Head(segs), 2, Len(Head(segs)))>> \o ColonNames(Tail(segs))
    ELSE ColonNames(Tail(segs))

SettingsDisable(route, method) ==
    /\ route.settings # None
    /\ method \in route.settings[1].methodDisabled

\* the node reached from the root by a route's segments
NodeOfSegments(segs) ==
    [i \in 1..Len(segs) |->
       IF IsParamSegment(segs[i]) THEN ParamEdge(Tail(segs[i]))
       ELSE StaticEdge(segs[i])]

\* no methods map holds a method together with a route that disables it
NoDisabledLeaf ==
    \A l \in Leaves(tree) : ~SettingsDisable(l.route, l.method)

\* every method of the emitted implementation is a leaf of the tree: a
\* method registered by its route
EmittedAreLeaves ==
    gpc \in {"emitted", "called"} =>
        \A sm \in ScopedMethods(emitted, << >>) :
            \E l \in Leaves(tree) :
                /\ l.route.path = sm.entry.path
                /\ ToUpperCase(l.method) = sm.entry.method
                /\ ~SettingsDisable(l.route, l.method)

\* inserting a route registers each of its methods that is not disabled,
\* with the route, at the node its segments lead to, and none of the others
InsertRegistersEnabled ==
    (gpc = "building" /\ nextRoute' = nextRoute + 1) =>
        LET route == routes[nextRoute]
            node == NodeOfSegments(Segments(route.path))
        IN  /\ node \in DOMAIN tree'
            /\ \A j \in 1..Len(route.methods) :
                  LET entry == [method |-> route.methods[j], route |-> route]
                  IN  (\E i \in 1..Len(tree'[node].methods) :
                          tree'[node].methods[i] = entry)
                      <=> ~SettingsDisable(route, route.methods[j])

\* C19: a method whose settings[method].disabled is true is never registered
\* in a methods map by its route and so is not emitted for that route, while
\* every other method of the route is registered at the node reached by the
\* route's segments
C19_DisabledNeverRegistered ==
    /\ [](NoDisabledLeaf /\ EmittedAreLeaves)
    /\ [][InsertRegistersEnabled]_vars

\* the route /u/:i with GET and a disabled DELETE was inserted alone and
\* emitted: its node holds GET only
C19_Witness ==
    /\ gpc = "emitted"
    /\ Len(routes) = 1
    /\ routes[1].path = P_ui
    /\ routes[1].methods = <<GET, DELETE>>
    /\ SettingsDisable(routes[1], DELETE)
    /\ tree[NodeOfSegments(Segments(P_ui))].methods
          = << [method |-> GET, route |-> routes[1]] >>
    /\ \A sm \in ScopedMethods(emitted, << >>) : sm.entry.method = GET

\* the route's schema carries a params object
CarriesParamsObject(route) ==
    /\ route.schema # None
    /\ \E i \in 1..Len(route.schema[1]) :
          route.schema[1][i] = <<PARAMS, "object">>

RECURSIVE KeptRoutes(_)
\* the routes a fetched list should yield: those not disabled, with their
\* declared or derived methods, a route left without methods kept with GET
\* when its schema carries a params object and dropped otherwise
KeptRoutes(rs) ==
    IF rs = << >> THEN << >>
    ELSE LET r == Head(rs)
             am == AvailableMethods(r)
         IN  (IF RouteDisabled(r) THEN << >>
              ELSE IF am # << >> THEN << [r EXCEPT !.methods = am] >>
              ELSE IF CarriesParamsObject(r)
              THEN << [r EXCEPT !.methods = <<GET>>] >>
              ELSE << >>)
             \o KeptRoutes(Tail(rs))

\* C20: a route whose method list is empty after derivation is kept with
\* the single placeholder method GET exactly when its schema carries a params
\* object and is discarded otherwise, so every route processRoutes returns
\* has a non-empty method list
C20_PlaceholderIffParamsObject ==
    gpc # "fetched" =>
        /\ routes = KeptRoutes(rawRoutes)
        /\ \A i \in 1..Len(routes) : routes[i].methods # << >>

\* the keys of a schema, in key order, that are not params and whose value
\* is a non-null object
SchemaMethodKeys(route) ==
    IF route.schema = None THEN << >>
    ELSE LET keep == SelectSeq(route.schema[1],
                               LAMBDA e : e[1] # PARAMS /\ e[2] = "object")
         IN  [i \in 1..Len(keep) |-> keep[i][1]]

\* the declared method list when it is not empty, else the schema's keys
DeclaredOrDerived(route) ==
    IF route.methods # None /\ route.methods[1] # << >>
    THEN route.methods[1]
    ELSE SchemaMethodKeys(route)

\* C21: the effective method list of a route is its declared method list
\* verbatim when that list is not empty, and otherwise the keys of its schema
\* other than params whose value is a non-null object, in schema key order
\* (a route left with no method at all is the subject of the placeholder
\* rule)
C21_EffectiveMethods ==
    gpc # "fetched" =>
        /\ \A j \in 1..Len(rawRoutes) :
              (~RouteDisabled(rawRoutes[j])
                 /\ DeclaredOrDerived(rawRoutes[j]) # << >>) =>
              \E i \in 1..Len(routes) :
                 routes[i] = [rawRoutes[j] EXCEPT
                                !.methods = DeclaredOrDerived(rawRoutes[j])]
        /\ \A i \in 1..Len(routes) :
              \E j \in 1..Len(rawRoutes) :
                 /\ routes[i].path = rawRoutes[j].path
                 /\ routes[i].schema = rawRoutes[j].schema
                 /\ routes[i].settings = rawRoutes[j].settings
                 /\ DeclaredOrDerived(rawRoutes[j]) # << >> =>
                       routes[i].methods = DeclaredOrDerived(rawRoutes[j])

\* a route with a declared list and a route whose list is derived from a
\* schema holding a method, params, a null and a string were normalized
C21_Witness ==
    /\ gpc = "building"
    /\ Len(rawRoutes) = 2
    /\ rawRoutes[1].methods = Some(<<GET, DELETE>>)
    /\ rawRoutes[2].methods = None
    /\ rawRoutes[2].schema # None
    /\ Len(rawRoutes[2].schema[1]) = 4
    /\ Len(routes) = 2
    /\ routes[1].methods = <<GET, DELETE>>
    /\ routes[2].methods = <<GET>>

\* the route-level settings.disabled of a route is true
DisabledBySettings(route) ==
    route.settings # None /\ route.settings[1].disabled

\* a processed route is a fetched route with its method list filled in
ProcessedFrom(p, r) ==
    /\ p.path = r.path
    /\ p.schema = r.schema
    /\ p.settings = r.settings

RECURSIVE InOrderOf(_, _)
\* the processed list ps follows the order of the fetched list rs: it is
\* made of routes of rs, each taken at most once, in the order of rs
InOrderOf(ps, rs) ==
    IF ps = << >> THEN TRUE
    ELSE IF rs = << >> THEN FALSE
    ELSE \/ /\ ProcessedFrom(Head(ps), Head(rs))
            /\ InOrderOf(Tail(ps), Tail(rs))
         \/ InOrderOf(ps, Tail(rs))

\* node lies on the way to the node of a fetched route that is not disabled
OnEnabledPath(node) ==
    \E j \in 1..Len(rawRoutes) :
        /\ ~DisabledBySettings(rawRoutes[j])
        /\ LET full == NodeOfSegments(Segments(rawRoutes[j].path))
           IN  Len(full) >= Len(node) /\ SubSeq(full, 1, Len(node)) = node

\* no disabled route is in the processed list, in a node or leaf of the tree
\* or behind an emitted entry, and the processed list is in input order
DisabledRoutesDropped ==
    gpc # "fetched" =>
        /\ \A i \in 1..Len(routes) : ~DisabledBySettings(routes[i])
        /\ InOrderOf(routes, rawRoutes)
        /\ \A n \in DOMAIN tree \ {Root} : OnEnabledPath(n)
        /\ \A l \in Leaves(tree) : ~DisabledBySettings(l.route)
        /\ gpc \in {"emitted", "called"} =>
              \A sm \in ScopedMethods(emitted, << >>) :
                 \E l \in Leaves(tree) :
                    /\ l.route.path = sm.entry.path
                    /\ ~DisabledBySettings(l.route)

\* C22: a route whose route-level settings.disabled is true is dropped by
\* the normalizer whatever its methods and schema, so it adds no tree node,
\* no leaf and no emitted entry; the routes that are kept keep their input
\* order, and the input route objects are left unchanged
C22_DisabledRouteDropped ==
    /\ []DisabledRoutesDropped
    /\ [][rawRoutes' = rawRoutes]_vars

\* the disabled route /u/a with a declared method came first, /u second: the
\* tree was built and emitted without a node for a
C22_Witness ==
    /\ gpc = "emitted"
    /\ Len(rawRoutes) = 2
    /\ DisabledBySettings(rawRoutes[1])
    /\ rawRoutes[1].methods = Some(<<GET>>)
    /\ rawRoutes[2].path = P_u
    /\ Len(routes) = 1
    /\ DOMAIN tree = {Root, <<StaticEdge(<<"u">>)>>}

RECURSIVE KeyPaths(_, _)
\* the key paths of emitted entries: for every entry the keys leading to it
KeyPaths(entries, prefix) ==
    UNION { LET here == Append(prefix, <<entries[i].kind, entries[i].key>>)
            IN  {here} \cup KeyPaths(entries[i].body, here) :
            i \in 1..Len(entries) }

\* C23: the implementation emitter and the interface emitter produce the
\* same key paths: a method entry, a static key or a $ key is at a position
\* of the emitted object literal exactly when it is at that position of the
\* emitted interface
C23_SameKeyPaths ==
    gpc \in {"emitted", "called"} =>
        KeyPaths(emitted, << >>) = KeyPaths(apiInterface, << >>)


----------------------------------------------------------------------------
(* ValidationError: values *)

\* a JavaScript value: an object given as its entries in key order, an array,
\* a string, a number, null or undefined
Obj(es) == [kind |-> "object", entries |-> es, items |-> << >>, text |-> ""]
Arr(xs) == [kind |-> "array", entries |-> << >>, items |-> xs, text |-> ""]
Str(t) == [kind |-> "string", entries |-> << >>, items |-> << >>, text |-> t]
NumberValue == [kind |-> "number", entries |-> << >>, items |-> << >>,
                text |-> "7"]
Null == [kind |-> "null", entries |-> << >>, items |-> << >>, text |-> ""]
Undefined == [kind |-> "undefined", entries |-> << >>, items |-> << >>,
              text |-> ""]

\* property names, as sequences of their parts
ERRORS == <<"_errors">>
BODY == <<"body">>
QUERY == <<"query">>
EMAIL == <<"email">>
AGE == <<"age">>
ROOT == <<"root">>
DOT == "."

\* the own enumerable properties of a value, in for..in order: the entries of
\* an object, the indices of an array
IndexKey(i) == <<CASE i = 1 -> "0" [] i = 2 -> "1" [] OTHER -> "2">>
PropertiesOf(v) ==
    IF v.kind = "object" THEN v.entries
    ELSE IF v.kind = "array"
    THEN [i \in 1..Len(v.items) |-> <<IndexKey(i), v.items[i]>>]
    ELSE << >>

\* obj[key]
Get(v, key) ==
    LET ps == PropertiesOf(v)
    IN  IF \E i \in 1..Len(ps) : ps[i][1] = key
        THEN ps[CHOOSE i \in 1..Len(ps) : ps[i][1] = key][2]
        ELSE Undefined

\* result[key] = value on a map from keys to values
Assign(m, key, value) ==
    [k \in DOMAIN m \cup {key} |-> IF k = key THEN value ELSE m[k]]
EmptyMap == [k \in {} |-> Undefined]

----------------------------------------------------------------------------
(* ValidationError: flatten and getErrorMessagesByPath *)

RECURSIVE FlattenObject(_, _, _)
\* flattenObject over the properties ps left of an object, result so far
FlattenObject(ps, prefix, result) ==
    IF ps = << >> THEN result
    ELSE LET key == Head(ps)[1]
             value == Head(ps)[2]
             newKey == IF prefix # << >> THEN prefix \o <<DOT>> \o key
                       ELSE key
         IN  FlattenObject(Tail(ps), prefix,
                 IF value.kind = "object"
                 THEN FlattenObject(PropertiesOf(value), newKey, result)
                 ELSE Assign(result, newKey, value))

\* flatten()
Flatten(data) ==
    IF data.kind \in {"undefined", "null"} THEN EmptyMap
    ELSE FlattenObject(PropertiesOf(data), << >>, EmptyMap)

\* obj._errors.filter(error => typeof error === 'string')
Messages(errs) == SelectSeq(errs.items, LAMBDA e : e.kind = "string")

\* getErrorMessagesByPath with every message kept, not only the strings
CollectOwnUnfiltered(obj, currentPath, acc) ==
    LET errs == Get(obj, ERRORS)
    IN  IF errs.kind = "array" /\ Len(errs.items) > 0
        THEN Assign(acc, IF currentPath # << >> THEN currentPath ELSE ROOT,
                    errs.items)
        ELSE acc

\* the first half of collectErrors: the _errors array of obj itself
CollectOwn(obj, currentPath, acc) ==
    LET errs == Get(obj, ERRORS)
    IN  IF errs.kind = "array" /\ Len(errs.items) > 0
             /\ Len(Messages(errs)) > 0
        THEN Assign(acc, IF currentPath # << >> THEN currentPath ELSE ROOT,
                    Messages(errs))
        ELSE acc

RECURSIVE CollectErrors(_, _, _)
RECURSIVE CollectChildren(_, _, _)
\* collectErrors(obj, currentPath), errorsByPath so far being acc
CollectErrors(obj, currentPath, acc) ==
    IF ~(obj.kind \in {"object", "array"}) THEN acc
    ELSE CollectChildren(PropertiesOf(obj), currentPath,
                         CollectOwn(obj, currentPath, acc))

\* the second half of collectErrors: every property but _errors
CollectChildren(ps, currentPath, acc) ==
    IF ps = << >> THEN acc
    ELSE LET key == Head(ps)[1]
             newPath == IF currentPath # << >>
                        THEN currentPath \o <<DOT>> \o key ELSE key
         IN  CollectChildren(Tail(ps), currentPath,
                 IF key # ERRORS
                 THEN CollectErrors(Head(ps)[2], newPath, acc)
                 ELSE acc)

\* getErrorMessagesByPath()
GetErrorMessagesByPath(data) ==
    IF data.kind \in {"undefined", "null"} THEN EmptyMap
    ELSE CollectErrors(data, << >>, EmptyMap)

----------------------------------------------------------------------------
(* ValidationError: the steps *)

INVALID == Str("invalid")
SHORT == Str("short")

\* what a field's _errors property holds: absent (None), or a value
ErrorsValues ==
    { None, Some(Arr(<< >>)), Some(Arr(<<INVALID>>)),
      Some(Arr(<<INVALID, SHORT>>)), Some(Arr(<<NumberValue, INVALID>>)),
      Some(Str("oops")) }

\* a node of the formatted validation errors: its _errors, then its fields
Node(errs, fields) ==
    Obj((IF errs # None THEN << <<ERRORS, errs[1]>> >> ELSE << >>) \o fields)

\* the validation data of the example response
ExampleData ==
    Obj(<< <<BODY, Obj(<< <<EMAIL, Node(Some(Arr(<<INVALID>>)), << >>)>> >>)>>
        >>)

\* the validation data a ValidationError is built with
DataValues ==
    { Obj(<< <<BODY, Node(e0, << <<EMAIL, Node(e1, << >>)>>,
                                 <<AGE, Node(e2, << >>)>> >>)>> >>) :
        e0 \in {None, Some(Arr(<<SHORT>>))},
        e1 \in ErrorsValues, e2 \in ErrorsValues }
    \cup { Node(e0, << <<QUERY,
                        Arr(<< Node(e1, << >>), Node(e2, << >>) >>)>> >>) :
        e0 \in {None, Some(Arr(<<SHORT>>))},
        e1 \in {None, Some(Arr(<<INVALID>>))},
        e2 \in {None, Some(Arr(<<INVALID, SHORT>>))} }
    \cup { ExampleData, Undefined,
           Obj(<< <<BODY, Obj(<< <<EMAIL, Str("error")>>,
                                 <<AGE, Null>> >>)>> >>),
           Obj(<< <<BODY \o <<DOT>> \o EMAIL,
                    Node(Some(Arr(<<SHORT>>)), << >>)>>,
                  <<BODY, Obj(<< <<EMAIL,
                                   Node(Some(Arr(<<INVALID>>)), << >>)>>
                              >>)>> >>) }

\* a ValidationError was constructed with the validation data
InitErr ==
    /\ validationData \in DataValues
    /\ flattened = None
    /\ byPath = None
    /\ RtIdle
    /\ GenOff
    /\ SigIdle
    /\ RunIdle

\* error.flatten()
CallFlatten ==
    /\ flattened = None
    /\ flattened' = Some(Flatten(validationData))
    /\ UNCHANGED <<validationData, byPath>>
    /\ UNCHANGED <<rtVars, genVars, sigVars, runVars>>

\* error.getErrorMessagesByPath()
CallGetErrorMessagesByPath ==
    /\ byPath = None
    /\ byPath' = Some(GetErrorMessagesByPath(validationData))
    /\ UNCHANGED <<validationData, flattened>>
    /\ UNCHANGED <<rtVars, genVars, sigVars, runVars>>

NextErr == CallFlatten \/ CallGetErrorMessagesByPath

SpecErr == InitErr /\ [][NextErr]_vars

----------------------------------------------------------------------------
(* ValidationError: properties *)

\* 'body.email'
BODY_EMAIL == BODY \o <<DOT>> \o EMAIL

RECURSIVE FieldsOf(_, _)
\* every object or array within v, with the sequence of property names that
\* leads to it
FieldsOf(v, names) ==
    IF ~(v.kind \in {"object", "array"}) THEN {}
    ELSE {<<names, v>>}
         \cup UNION { FieldsOf(PropertiesOf(v)[i][2],
                              Append(names, PropertiesOf(v)[i][1])) :
                      i \in { j \in 1..Len(PropertiesOf(v)) :
                                PropertiesOf(v)[j][1] # ERRORS } }

\* the dot-joined path of a field, 'root' for the data itself
PathOf(names) == IF names = << >> THEN ROOT ELSE JoinWith(names, DOT)

\* C17 as stated, of flatten(): the flattened map of the example data holds
\* ['invalid'] under 'body.email', and each field's _errors list appears
\* under the dot-joined path of the field
C17_Original ==
    flattened # None =>
      /\ validationData = ExampleData =>
           /\ BODY_EMAIL \in DOMAIN flattened[1]
           /\ flattened[1][BODY_EMAIL] = Arr(<<INVALID>>)
      /\ \A f \in FieldsOf(validationData, << >>) :
           Get(f[2], ERRORS).kind = "array" /\ f[1] # << >> =>
             /\ PathOf(f[1]) \in DOMAIN flattened[1]
             /\ flattened[1][PathOf(f[1])] = Get(f[2], ERRORS)

\* C17 (amended): the map getErrorMessagesByPath() returns for the example
\* data holds ['invalid'] under 'body.email'; in general each field whose
\* _errors array holds a string has the strings of that array, in order,
\* under its dot-joined path ('root' for the data itself), when no other
\* field has the same path, and the map has no other key
C17_MessagesByPath ==
    byPath # None =>
      LET fields == FieldsOf(validationData, << >>)
          listed == { f \in fields :
                        /\ Get(f[2], ERRORS).kind = "array"
                        /\ Len(Messages(Get(f[2], ERRORS))) > 0 }
      IN  /\ validationData = ExampleData =>
               /\ BODY_EMAIL \in DOMAIN byPath[1]
               /\ byPath[1][BODY_EMAIL] = <<INVALID>>
          /\ \A f \in listed :
               (\A g \in listed : PathOf(g[1]) = PathOf(f[1]) => g = f) =>
                 /\ PathOf(f[1]) \in DOMAIN byPath[1]
                 /\ byPath[1][PathOf(f[1])] = Messages(Get(f[2], ERRORS))
          /\ DOMAIN byPath[1] = { PathOf(f[1]) : f \in listed }

\* getErrorMessagesByPath() was called on the error of the example response
C17_Witness ==
    /\ validationData = ExampleData
    /\ byPath # None
    /\ BODY_EMAIL \in DOMAIN byPath[1]

----------------------------------------------------------------------------
(* Generator: descriptors and generateMethodSignature *)

\* a type-constraint descriptor: null, an object without def, or one with a
\* def of some type, for an object its shape (the fields in order) and for a
\* wrapper its inner descriptor
ZNull == [node |-> "null", type |-> "", shape |-> None, inner |-> None]
ZNoDef == [node |-> "nodef", type |-> "", shape |-> None, inner |-> None]
ZType(t) == [node |-> "def", type |-> t, shape |-> None, inner |-> None]
ZObject(fields) == [node |-> "def", type |-> "object",
                    shape |-> Some(fields), inner |-> None]
ZWrap(t, d) == [node |-> "def", type |-> t, shape |-> None,
                inner |-> Some(d)]

ANY == <<"any">>

RECURSIVE ZodDefToTypeScript(_)
RECURSIVE ConvertFields(_)
\* zodDefToTypeScript, the type expression as the sequence of its parts
ZodDefToTypeScript(d) ==
    IF d.node # "def" THEN ANY
    ELSE CASE d.type \in {"string", "number", "boolean"} -> <<d.type>>
           [] d.type \in {"optional", "default"} ->
                IF d.inner # None THEN ZodDefToTypeScript(d.inner[1])
                ELSE ANY
           [] d.type = "object" ->
                IF d.shape = None THEN <<"Record<string, any>">>
                ELSE <<"{">> \o ConvertFields(d.shape[1]) \o <<"}">>
           [] OTHER -> ANY

\* the props of convertObjectType, joined with ';'
ConvertFields(fields) ==
    IF fields = << >> THEN << >>
    ELSE LET f == Head(fields)
             optional == f[2].node = "def"
                           /\ f[2].type \in {"optional", "default"}
         IN  <<f[1], IF optional THEN "?:" ELSE ":">>
               \o ZodDefToTypeScript(f[2])
               \o (IF Len(fields) > 1 THEN <<";">> ELSE << >>)
               \o ConvertFields(Tail(fields))

\* hasRequiredFields
HasRequiredFields(d) ==
    IF d.node # "def" THEN FALSE
    ELSE IF d.type = "object" /\ d.shape # None
    THEN \E i \in 1..Len(d.shape[1]) :
            LET f == d.shape[1][i][2]
            IN  ~(f.node = "def" /\ f.type \in {"optional", "default"})
    ELSE TRUE

\* methodSchema.files: its def type and its __fileOptions (None when
\* undefined), of which multiple and required may be missing
FilesDef(t, fo) == [type |-> t, fileOptions |-> fo]
FileOptions(m, r) == [multiple |-> m, required |-> r]

\* route.schema[method] || {}
MethodSchema(b, q, f, r) == [body |-> b, query |-> q, files |-> f,
                             response |-> r]

\* hasFileUploads
HasFileUploads(ms) ==
    /\ ms.files # None
    /\ ms.files[1].type = "any"
    /\ ms.files[1].fileOptions # None

\* getFileUploadInfo, when hasFileUploads holds
GetFileUploadInfo(ms) ==
    LET fo == ms.files[1].fileOptions[1]
    IN  [multiple |-> fo.multiple # None /\ fo.multiple[1],
         required |-> fo.required # None /\ fo.required[1]]

RECURSIVE Concat(_)
\* parts.join('')
Concat(parts) ==
    IF parts = << >> THEN << >> ELSE Head(parts) \o Concat(Tail(parts))

\* word.charAt(0).toUpperCase() + word.slice(1).toLowerCase()
Capitalized(word) ==
    IF word = << >> THEN << >>
    ELSE <<ToUpperChar(word[1])>> \o ToLowerCase(Tail(word))

\* toPascalCase
ToPascalCase(segment) ==
    LET words == SplitOn(segment, "-")
    IN  Concat([i \in 1..Len(words) |-> Capitalized(words[i])])

\* generateTypeName without the separators
GenerateTypeNameNoSeparator(path, method, typeSuffix) ==
    LET segments == Segments(path)
        statics == SelectSeq(segments, LAMBDA g : ~IsParamSegment(g))
    IN  (IF method = << >> THEN << >>
         ELSE <<method[1]>> \o ToLowerCase(Tail(method)))
        \o Concat([i \in 1..Len(statics) |-> ToPascalCase(statics[i])])
        \o <<typeSuffix>>

\* generateTypeName: the characters of the name, the suffix as one part
GenerateTypeName(path, method, typeSuffix) ==
    LET methodName == IF method = << >> THEN << >>
                      ELSE <<method[1]>> \o ToLowerCase(Tail(method))
        segments == Segments(path)
        isStatic(i) == ~IsParamSegment(segments[i])
        statics == { i \in 1..Len(segments) : isStatic(i) }
        lastStaticSegmentIndex ==
            IF statics = {} THEN 0
            ELSE CHOOSE i \in statics : \A j \in statics : j <= i
        pathParts ==
            [i \in 1..Len(segments) |->
               IF ~isStatic(i) THEN << >>
               ELSE (IF (\E k \in statics : k < i)
                        /\ i > 1 /\ ~isStatic(i - 1)
                     THEN DOLLAR ELSE << >>)
                    \o ToPascalCase(segments[i])]
        hasParamAfterLastSegment ==
            /\ lastStaticSegmentIndex >= 1
            /\ lastStaticSegmentIndex < Len(segments)
            /\ ~isStatic(lastStaticSegmentIndex + 1)
    IN  methodName \o Concat(pathParts)
        \o (IF hasParamAfterLastSegment THEN DOLLAR ELSE << >>)
        \o <<typeSuffix>>

\* one field of the options type, the whole signature
Part(n, opt, t) == [name |-> n, optional |-> opt, type |-> t]
Signature(takes, opt, ps, r) ==
    [takesOptions |-> takes, optional |-> opt, parts |-> ps, response |-> r]

\* bodyRequired and queryRequired
FieldRequired(d, type) == type # ANY /\ HasRequiredFields(d)

\* generateMethodSignature
GenerateMethodSignature(path, method, ms, separate) ==
    LET hasBody == ms.body # None
        hasQuery == ms.query # None
        hasFiles == HasFileUploads(ms)
        responseType ==
            IF separate /\ ms.response # None /\ ms.response[1].node # "null"
            THEN GenerateTypeName(path, method, "ResponseBody")
            ELSE IF ms.response # None /\ ms.response[1].node # "null"
            THEN ZodDefToTypeScript(ms.response[1])
            ELSE ANY
        bodyType == IF separate
                    THEN GenerateTypeName(path, method, "RequestBody")
                    ELSE ZodDefToTypeScript(ms.body[1])
        queryType == IF separate
                     THEN GenerateTypeName(path, method, "RequestQuery")
                     ELSE ZodDefToTypeScript(ms.query[1])
        bodyRequired == hasBody /\ FieldRequired(ms.body[1], bodyType)
        queryRequired == hasQuery /\ FieldRequired(ms.query[1], queryType)
        fileInfo == GetFileUploadInfo(ms)
        fileRequired == hasFiles /\ fileInfo.required
        parts ==
            (IF hasBody THEN <<Part("body", ~bodyRequired, bodyType)>>
             ELSE << >>)
            \o (IF hasQuery THEN <<Part("query", ~queryRequired, queryType)>>
                ELSE << >>)
            \o (IF hasFiles
                THEN IF fileInfo.multiple
                     THEN <<Part("files", ~fileInfo.required, <<"File[]">>)>>
                     ELSE <<Part("file", ~fileInfo.required, <<"File">>)>>
                ELSE << >>)
    IN  IF ~hasBody /\ ~hasQuery /\ ~hasFiles
        THEN Signature(FALSE, FALSE, << >>, responseType)
        ELSE Signature(TRUE, ~(bodyRequired \/ queryRequired \/ fileRequired),
                       parts, responseType)

----------------------------------------------------------------------------
(* Generator: generateMethodSignature, the steps *)

\* the descriptors of a body or a query
Descriptors ==
    { ZNull, ZNoDef, ZType("any"), ZType("string"), ZType("object"),
      ZObject(<< >>),
      ZObject(<< <<"a", ZWrap("optional", ZType("string"))>>,
                 <<"b", ZWrap("default", ZType("number"))>> >>),
      ZObject(<< <<"a", ZWrap("optional", ZType("string"))>>,
                 <<"b", ZType("number")>> >>),
      ZWrap("optional", ZObject(<< <<"b", ZType("number")>> >>)) }

\* the values of methodSchema.files
FilesValues ==
    { None, Some(FilesDef("any", None)), Some(FilesDef("string", None)),
      Some(FilesDef("any", Some(FileOptions(None, None)))) }
    \cup { Some(FilesDef("any", Some(FileOptions(Some(m), Some(r))))) :
             m \in BOOLEAN, r \in BOOLEAN }

MethodSchemas ==
    { MethodSchema(b, q, f, r) :
        b \in {None} \cup { Some(d) : d \in Descriptors },
        q \in { None, Some(ZType("any")), Some(ZObject(<< >>)),
                Some(ZObject(<< <<"b", ZType("number")>> >>)) },
        f \in FilesValues,
        r \in { None, Some(ZType("string")) } }

\* generateMethodSignature is about to be called for a method
InitSig ==
    /\ methodSchema \in MethodSchemas
    /\ separateTypes \in BOOLEAN
    /\ signature = None
    /\ conversion = None
    /\ NamesIdle
    /\ RtIdle
    /\ GenOff
    /\ ErrIdle
    /\ RunIdle

\* generateMethodSignature(route, method, accumulatedParams, separateTypes)
\* for the method GET of the route /u
CallGenerateMethodSignature ==
    /\ signature = None
    /\ signature' = Some(GenerateMethodSignature(P_u, GET, methodSchema,
                                                  separateTypes))
    /\ UNCHANGED <<methodSchema, separateTypes, conversion, nameArgs,
                   typeNames, typeDefinitions>>
    /\ UNCHANGED <<rtVars, genVars, errVars, runVars>>

NextSig == CallGenerateMethodSignature

SpecSig == InitSig /\ [][NextSig]_vars

----------------------------------------------------------------------------
(* Generator: generateMethodSignature, properties *)

\* a body or query descriptor is required: it has required fields and its
\* type is not the open type
RequiredDescriptor(d) ==
    HasRequiredFields(d) /\ ZodDefToTypeScript(d) # ANY

\* C14: a method with no body, no query and no files takes no argument;
\* otherwise body (resp. query) is marked required exactly when its
\* descriptor has required fields and its type is not the open type, file or
\* files exactly when the upload is marked required, and the options argument
\* is optional exactly when none of its fields is required
C14_OptionsOptionality ==
    signature # None =>
      LET sig == signature[1]
          ms == methodSchema
          hasFiles == HasFileUploads(ms)
          required(n) ==
            CASE n = "body" -> RequiredDescriptor(ms.body[1])
              [] n = "query" -> RequiredDescriptor(ms.query[1])
              [] OTHER -> ms.files[1].fileOptions[1].required = Some(TRUE)
      IN  /\ sig.takesOptions <=>
               (ms.body # None \/ ms.query # None \/ hasFiles)
          /\ \A i \in 1..Len(sig.parts) :
               sig.parts[i].optional <=> ~required(sig.parts[i].name)
          /\ sig.takesOptions =>
               (sig.optional <=>
                  \A i \in 1..Len(sig.parts) : sig.parts[i].optional)

----------------------------------------------------------------------------
(* Generator: generateClient *)

\* the path of a route object that has no path property
NoPath == <<"undefined">>

\* GeneratorOptions: separateTypes and useTypesV2 (url and output are fixed)
GeneratorOptions(separate, v2) == [separateTypes |-> separate,
                                   useTypesV2 |-> v2]

\* USE_TYPES_V2 && !SEPARATE_TYPES
FlagsInvalid(o) == o.useTypesV2 /\ ~o.separateTypes

\* how fetch(`${apiBase}/__client__`) settles: rejected, or resolved with a
\* response of some res.ok whose body is no JSON, a JSON array, or a JSON
\* object with or without a data property
Answer(settled, ok, json, rs) ==
    [settled |-> settled, ok |-> ok, json |-> json, routes |-> rs]

FetchThrew == [threw |-> TRUE, routes |-> << >>]

\* fetchApiSchema
FetchApiSchema(ans) ==
    IF ans.settled = "rejected" THEN FetchThrew
    ELSE IF ~ans.ok THEN FetchThrew
    ELSE IF ans.json = "invalid" THEN FetchThrew
    ELSE IF ans.json \in {"array", "data"}
    THEN [threw |-> FALSE, routes |-> ans.routes]
    ELSE [threw |-> FALSE, routes |-> << >>]

RECURSIVE InsertAll(_, _)
\* routes.forEach of buildCompleteTree over routes that have a path
InsertAll(t, rs) ==
    IF rs = << >> THEN t
    ELSE InsertAll(InsertRoute(t, Root, Segments(Head(rs).path), 1,
                               Head(rs)),
                   Tail(rs))

\* buildCompleteTree: route.path.split throws TypeError for a route
\* without path
BuildCompleteTree(rs) ==
    IF \E i \in 1..Len(rs) : rs[i].path = NoPath
    THEN [threw |-> TRUE, tree |-> EmptyTree]
    ELSE [threw |-> FALSE, tree |-> InsertAll(EmptyTree, rs)]

GENERATED_AT == " * Generated at: "
RETURN == "return {"
API_BASE == "https://api.ex"

\* one line (or block of lines) of the generated code: its fixed text and
\* what is interpolated into it
Line(text, hole) == [text |-> text, hole |-> hole]

\* generatedCode: the header comment, then the code with the implementation
GeneratedCode(now, interfaceSig, apiImpl) ==
    << Line("/**", << >>),
       Line(" * Auto-generated API client", << >>),
       Line(GENERATED_AT, <<now>>),
       Line(" * Base URL: ", <<API_BASE>>),
       Line(" * DO NOT EDIT THIS FILE MANUALLY", << >>),
       Line("interface ApiMethods {", interfaceSig),
       Line("const request = createRequest({ baseUrl: ", <<API_BASE>>),
       Line(RETURN, apiImpl),
       Line("baseUrl: options.baseUrl || ", <<API_BASE>>) >>

\* the routes a served list is drawn from
ServedRoutes ==
    { RawRoute(P_uget, Some(<<GET>>), None, None),
      RawRoute(P_ua, Some(<<POST, GET>>), None, None),
      RawRoute(P_ui, Some(<<GET, DELETE>>), None,
               Some(Settings(FALSE, {DELETE}))),
      RawRoute(P_uj, Some(<<DELETE>>), None, None),
      RawRoute(NoPath, Some(<<GET>>), None, None),
      RawRoute(NoPath, Some(<<GET>>), None, Some(Settings(TRUE, {}))),
      RawRoute(NoPath, None, None, None) }

\* the answers of the server
Answers ==
    { Answer("rejected", FALSE, "invalid", << >>),
      Answer("resolved", FALSE, "array", << >>),
      Answer("resolved", TRUE, "invalid", << >>),
      Answer("resolved", TRUE, "object", << >>) }
    \cup { Answer("resolved", TRUE, j, rs) :
             j \in {"array", "data"},
             rs \in SeqsUpTo(ServedRoutes, MaxRoutes) }

\* generateClient was not called yet
InitRun ==
    /\ generatorOptions \in
         { GeneratorOptions(a, b) : a \in BOOLEAN, b \in BOOLEAN }
    /\ served \in Answers
    /\ clock = 0
    /\ runsStarted = 0
    /\ outputFile = None
    /\ outputs = << >>
    /\ gpc = "idle"
    /\ rawRoutes = << >>
    /\ routes = << >>
    /\ tree = EmptyTree
    /\ nextRoute = 0
    /\ emitted = << >>
    /\ apiInterface = << >>
    /\ invoked = << >>
    /\ RtIdle
    /\ ErrIdle
    /\ SigIdle

\* generateClient(options) up to its first await: the flags are validated
\* and the schema is requested
StartRun ==
    /\ gpc = "idle"
    /\ runsStarted' = runsStarted + 1
    /\ gpc' = IF FlagsInvalid(generatorOptions) THEN "threw" ELSE "fetching"
    /\ UNCHANGED <<generatorOptions, served, clock, outputFile, outputs>>
    /\ UNCHANGED <<rawRoutes, routes, tree, nextRoute, emitted, apiInterface,
                   invoked>>
    /\ UNCHANGED <<rtVars, errVars, sigVars>>

\* the fetch settles and generateClient runs to its end: process.exit(1)
\* when fetchApiSchema threw, else processRoutes, buildCompleteTree,
\* generateFromTree and writeFileSync
SchemaSettles ==
    /\ gpc = "fetching"
    /\ LET fetched == FetchApiSchema(served)
           processed == ProcessRoutes(fetched.routes)
           built == BuildCompleteTree(processed)
           apiImpl == GenerateFromTree(built.tree, Root, << >>)
           interfaceSig == GenerateInterfaceFromTree(built.tree, Root, << >>)
           generatedCode == GeneratedCode(clock, interfaceSig, apiImpl)
       IN  IF fetched.threw
           THEN /\ gpc' = "exited"
                /\ UNCHANGED <<rawRoutes, routes, tree, emitted,
                               apiInterface, outputFile, outputs>>
           ELSE IF built.threw
           THEN /\ gpc' = "threw"
                /\ rawRoutes' = fetched.routes
                /\ routes' = processed
                /\ UNCHANGED <<tree, emitted, apiInterface, outputFile,
                               outputs>>
           ELSE /\ gpc' = "written"
                /\ rawRoutes' = fetched.routes
                /\ routes' = processed
                /\ tree' = built.tree
                /\ emitted' = apiImpl
                /\ apiInterface' = interfaceSig
                /\ outputFile' = Some(generatedCode)
                /\ outputs' = Append(outputs, generatedCode)
    /\ UNCHANGED <<generatorOptions, served, clock, runsStarted, nextRoute,
                   invoked>>
    /\ UNCHANGED <<rtVars, errVars, sigVars>>

\* the generator is started again, at the same or a later time, with the
\* same options against the same server
RunAgain(later) ==
    /\ gpc \in {"written", "threw", "exited"}
    /\ runsStarted < MaxRuns
    /\ clock' = IF later THEN clock + 1 ELSE clock
    /\ gpc' = "idle"
    /\ rawRoutes' = << >>
    /\ routes' = << >>
    /\ tree' = EmptyTree
    /\ emitted' = << >>
    /\ apiInterface' = << >>
    /\ UNCHANGED <<generatorOptions, served, runsStarted, outputFile, outputs,
                   nextRoute, invoked>>
    /\ UNCHANGED <<rtVars, errVars, sigVars>>

NextRun ==
    \/ StartRun
    \/ SchemaSettles
    \/ \E later \in BOOLEAN : RunAgain(later)

SpecRun == InitRun /\ [][NextRun]_vars

----------------------------------------------------------------------------
(* Generator: generateClient, properties *)

\* the run wrote the output file in this step
Wrote == Len(outputs') > Len(outputs)

\* the server answered with a 2xx response carrying a JSON route list
FetchSucceeded ==
    /\ served.settled = "resolved"
    /\ served.ok
    /\ served.json # "invalid"

\* C16: the output file is written only in a run whose flags are valid
\* (not --use-types-v2 without --separate-types), whose schema fetch
\* succeeded and whose schema has a path on every route
C16_WrittenOnlyWhenValid ==
    [][Wrote =>
          /\ ~(generatorOptions.useTypesV2 /\ ~generatorOptions.separateTypes)
          /\ FetchSucceeded
          /\ \A i \in 1..Len(rawRoutes') : rawRoutes'[i].path # NoPath]_vars

RECURSIVE FirstAppearances(_, _)
\* the elements of q in the order of their first appearance
FirstAppearances(q, seen) ==
    IF q = << >> THEN << >>
    ELSE IF Head(q) \in seen THEN FirstAppearances(Tail(q), seen)
    ELSE <<Head(q)>> \o FirstAppearances(Tail(q), seen \cup {Head(q)})

RECURSIVE EdgesBelow(_, _)
\* for the routes that pass through node, in list order, the edge each takes
\* out of node
EdgesBelow(rs, node) ==
    IF rs = << >> THEN << >>
    ELSE LET full == NodeOfSegments(Segments(Head(rs).path))
         IN  (IF Len(full) > Len(node) /\ SubSeq(full, 1, Len(node)) = node
              THEN <<full[Len(node) + 1]>> ELSE << >>)
             \o EdgesBelow(Tail(rs), node)

RECURSIVE MethodsAt(_, _)
\* for the routes that end at node, in list order, their enabled methods
MethodsAt(rs, node) ==
    IF rs = << >> THEN << >>
    ELSE LET r == Head(rs)
         IN  (IF NodeOfSegments(Segments(r.path)) = node
              THEN SelectSeq(r.methods,
                             LAMBDA m : ~SettingsDisable(r, m))
              ELSE << >>)
             \o MethodsAt(Tail(rs), node)

RECURSIVE KeysInOrder(_, _, _)
\* the method keys, the static keys and the $ parameters of the emitted
\* object of node, and of every object below it, are in the order of first
\* appearance in the route list rs
KeysInOrder(entries, rs, node) ==
    LET ms == SelectSeq(entries, LAMBDA e : e.kind = "method")
        ss == SelectSeq(entries, LAMBDA e : e.kind = "object")
        ps == SelectSeq(entries, LAMBDA e : e.kind = "function")
        edges == FirstAppearances(EdgesBelow(rs, node), {})
        statics == SelectSeq(edges, LAMBDA e : e.kind = "static")
        params == SelectSeq(edges, LAMBDA e : e.kind = "param")
        methods == FirstAppearances(MethodsAt(rs, node), {})
    IN  /\ [i \in 1..Len(ms) |-> ms[i].key]
             = [i \in 1..Len(methods) |-> ToLowerCase(methods[i])]
        /\ [i \in 1..Len(ss) |-> ss[i].key]
             = [i \in 1..Len(statics) |-> statics[i].name]
        /\ [i \in 1..Len(ps) |-> ps[i].param]
             = [i \in 1..Len(params) |-> params[i].name]
        /\ \A i \in 1..Len(ss) :
              KeysInOrder(ss[i].body, rs, Append(node, StaticEdge(ss[i].key)))
        /\ \A i \in 1..Len(ps) :
              KeysInOrder(ps[i].body, rs,
                          Append(node, ParamEdge(ps[i].param)))

\* the lines in which two generated codes differ
DifferingLines(a, b) == { i \in 1..Len(a) : a[i] # b[i] }

----------------------------------------------------------------------------
(* Generator: zodDefToTypeScript as a computation *)

\* a lazy descriptor: def.type 'lazy' with the getter function g
ZLazy(g) == [node |-> "def", type |-> "lazy", shape |-> None,
             inner |-> None, getter |-> g]

\* the getter functions: what each returns when called, or that it throws
Getters ==
    [g \in {"leaf", "list", "tree", "throws"} |->
       CASE g = "leaf" -> Some(ZType("string"))
         [] g = "list" ->
              Some(ZObject(<< <<"value", ZType("number")>>,
                              <<"next", ZWrap("optional", ZLazy("list"))>> >>))
         [] g = "tree" ->
              Some(ZObject(<< <<"l", ZLazy("tree")>>,
                              <<"r", ZLazy("tree")>> >>))
         [] OTHER -> None]

IsLazy(d) == d.node = "def" /\ d.type = "lazy"

\* the descriptors a call of zodDefToTypeScript on d converts in turn
ChildrenOf(d) ==
    IF d.node # "def" THEN << >>
    ELSE CASE d.type = "lazy" ->
                IF Getters[d.getter] # None THEN <<Getters[d.getter][1]>>
                ELSE << >>
           [] d.type \in {"optional", "default"} ->
                IF d.inner # None THEN <<d.inner[1]>> ELSE << >>
           [] d.type = "object" /\ d.shape # None ->
                [i \in 1..Len(d.shape[1]) |-> d.shape[1][i][2]]
           [] OTHER -> << >>

RECURSIVE JoinFields(_, _)
\* the props of convertObjectType from the converted field types
JoinFields(fields, parts) ==
    IF fields = << >> THEN << >>
    ELSE LET f == Head(fields)
             optional == f[2].node = "def"
                           /\ f[2].type \in {"optional", "default"}
         IN  <<f[1], IF optional THEN "?:" ELSE ":">>
               \o Head(parts)
               \o (IF Len(fields) > 1 THEN <<";">> ELSE << >>)
               \o JoinFields(Tail(fields), Tail(parts))

\* what the call on d returns once its nested calls returned parts
ReturnValue(d, parts) ==
    IF d.node # "def" THEN ANY
    ELSE CASE d.type = "lazy" -> IF parts # << >> THEN parts[1] ELSE ANY
           [] d.type \in {"optional", "default"} /\ d.inner # None -> parts[1]
           [] d.type = "object" /\ d.shape # None ->
                <<"{">> \o JoinFields(d.shape[1], parts) \o <<"}">>
           [] OTHER -> ZodDefToTypeScript(d)

\* one call on the stack: its descriptor and what its nested calls returned
Frame(d) == [d |-> d, parts |-> << >>]

Running(stack) == [stack |-> stack, done |-> FALSE, threw |-> FALSE,
                   result |-> << >>]
Finished(value) == [stack |-> << >>, done |-> TRUE, threw |-> FALSE,
                    result |-> value]
Threw == [stack |-> << >>, done |-> TRUE, threw |-> TRUE, result |-> << >>]

\* the value returns from the call at position k of the stack
ReturnFrom(stack, k, value) ==
    IF k = 1 THEN Finished(value)
    ELSE Running([SubSeq(stack, 1, k - 1) EXCEPT
                     ![k - 1].parts = Append(@, value)])

\* a RangeError handled by retrying: the stack is left as it is
CatchRangeErrorRetry(stack) == Running(stack)

\* the RangeError of a call that exceeds the stack: the innermost
\* convertLazyType on the stack catches it and returns 'any'; without one it
\* leaves zodDefToTypeScript
CatchRangeError(stack) ==
    LET lazies == { k \in 1..Len(stack) : IsLazy(stack[k].d) }
    IN  IF lazies = {} THEN Threw
        ELSE LET k == CHOOSE x \in lazies : \A y \in lazies : y <= x
             IN  ReturnFrom(stack, k, ANY)

RECURSIVE Nested(_)
\* an object descriptor nested n deep
Nested(n) ==
    IF n = 0 THEN ZType("string")
    ELSE ZObject(<< <<"a", Nested(n - 1)>> >>)

\* the descriptors zodDefToTypeScript is called on
Convertibles ==
    { ZLazy(g) : g \in DOMAIN Getters }
    \cup { ZObject(<< <<"a", ZLazy(g)>>, <<"b", ZType("string")>> >>) :
             g \in DOMAIN Getters }
    \cup { ZWrap("optional", ZLazy("list")), ZType("string"), ZNull,
           Nested(StackLimit + 1) }

\* zodDefToTypeScript(zodDef) was called
InitLazy ==
    /\ conversion \in { Some(Running(<<Frame(d)>>)) : d \in Convertibles }
    /\ methodSchema = << >>
    /\ separateTypes = FALSE
    /\ signature = << >>
    /\ NamesIdle
    /\ RtIdle
    /\ GenOff
    /\ ErrIdle
    /\ RunIdle

\* the innermost call, and whether it has a nested call left to make
Top == conversion[1].stack[Len(conversion[1].stack)]
HasNext == Len(Top.parts) < Len(ChildrenOf(Top.d))

\* the innermost call calls zodDefToTypeScript on its next descriptor
Enter ==
    /\ ~conversion[1].done
    /\ HasNext
    /\ Len(conversion[1].stack) < StackLimit
    /\ conversion' =
         Some(Running(Append(conversion[1].stack,
                             Frame(ChildrenOf(Top.d)[Len(Top.parts) + 1]))))
    /\ UNCHANGED <<methodSchema, separateTypes, signature, nameArgs,
                   typeNames, typeDefinitions>>
    /\ UNCHANGED <<rtVars, genVars, errVars, runVars>>

\* the nested call does not fit the stack
Overflow ==
    /\ ~conversion[1].done
    /\ HasNext
    /\ Len(conversion[1].stack) = StackLimit
    /\ conversion' = Some(CatchRangeError(conversion[1].stack))
    /\ UNCHANGED <<methodSchema, separateTypes, signature, nameArgs,
                   typeNames, typeDefinitions>>
    /\ UNCHANGED <<rtVars, genVars, errVars, runVars>>

\* the innermost call returns
Return ==
    /\ ~conversion[1].done
    /\ ~HasNext
    /\ conversion' =
         Some(ReturnFrom(conversion[1].stack, Len(conversion[1].stack),
                         ReturnValue(Top.d, Top.parts)))
    /\ UNCHANGED <<methodSchema, separateTypes, signature, nameArgs,
                   typeNames, typeDefinitions>>
    /\ UNCHANGED <<rtVars, genVars, errVars, runVars>>

NextLazy == Enter \/ Overflow \/ Return

\* a call that can take a step takes it
SpecLazy == InitLazy /\ [][NextLazy]_vars /\ WF_vars(NextLazy)

----------------------------------------------------------------------------
(* Generator: zodDefToTypeScript as a computation, properties *)

----------------------------------------------------------------------------
(* Generator: generateTypeName, the steps *)

N_au == <<"/", "a", "/", "u">>
N_aiu == <<"/", "a", "/", ":", "i", "/", "u">>
N_aiju == <<"/", "a", "/", ":", "i", "/", ":", "j", "/", "u">>
N_iu == <<"/", ":", "i", "/", "u">>
N_a_u == <<"/", "a", "-", "u">>
N_ai == <<"/", "a", "/", ":", "i">>
N_aiuj == <<"/", "a", "/", ":", "i", "/", "u", "/", ":", "j">>
N_auj == <<"/", "a", "/", "u", "/", ":", "j">>

\* the paths, methods and roles generateTypeName is called with
NamePaths == { P_root, P_u, P_ui, N_au, N_aiu, N_aiju, N_iu, N_a_u, N_ai,
               N_aiuj, N_auj }
NameMethods == { GET, DELETE, <<"g", "e", "t">> }
Roles == { "ResponseBody", "RequestBody", "RequestQuery" }

\* generateTypeName is about to be called for two routes with the same
\* method and role
InitName ==
    /\ nameArgs \in [path : NamePaths, other : NamePaths,
                     method : NameMethods, role : Roles]
    /\ typeNames = None
    /\ typeDefinitions = << >>
    /\ methodSchema = << >>
    /\ separateTypes = FALSE
    /\ signature = << >>
    /\ conversion = << >>
    /\ RtIdle
    /\ GenOff
    /\ ErrIdle
    /\ RunIdle

\* generateTypeName(route, method, typeSuffix) for each of the two routes
CallGenerateTypeName ==
    /\ typeNames = None
    /\ typeNames' =
         Some([path |-> GenerateTypeName(nameArgs.path, nameArgs.method,
                                         nameArgs.role),
               other |-> GenerateTypeName(nameArgs.other, nameArgs.method,
                                          nameArgs.role)])
    /\ UNCHANGED <<methodSchema, separateTypes, signature, conversion,
                   nameArgs, typeDefinitions>>
    /\ UNCHANGED <<rtVars, genVars, errVars, runVars>>

NextName == CallGenerateTypeName

SpecName == InitName /\ [][NextName]_vars

----------------------------------------------------------------------------
(* Generator: generateTypeName, properties *)

\* the literal segments of a path, in order
Literals(path) == SelectSeq(Segments(path), LAMBDA g : g[1] # COLON)

RECURSIVE SeparatedLiterals(_, _)
\* the PascalCased literal segments from position i on, each with $ in front
\* when the segment right before it is a parameter segment
SeparatedLiterals(segs, i) ==
    IF i > Len(segs) THEN << >>
    ELSE (IF segs[i][1] = COLON THEN << >>
          ELSE (IF i > 1 /\ segs[i - 1][1] = COLON THEN <<"$">> ELSE << >>)
               \o ToPascalCase(segs[i]))
         \o SeparatedLiterals(segs, i + 1)

\* the last literal segment is immediately followed by a parameter segment
ParamAfterLastLiteral(segs) ==
    \E i \in 1..Len(segs) - 1 :
        /\ segs[i][1] # COLON
        /\ segs[i + 1][1] = COLON
        /\ \A j \in (i + 1)..Len(segs) : segs[j][1] = COLON

\* the method with its first character kept and the others lower-cased
MethodNameOf(method) ==
    [i \in 1..Len(method) |->
       IF i = 1 THEN method[i] ELSE ToLowerChar(method[i])]

\* C25: generateTypeName returns the method name, the PascalCased literal
\* segments of the path in order and the role suffix, with $ immediately
\* before every literal segment that is immediately preceded by a parameter
\* segment, and immediately before the suffix when the last literal segment
\* is immediately followed by a parameter segment
C25_NameShape ==
    typeNames # None =>
        typeNames[1].path =
            MethodNameOf(nameArgs.method)
            \o SeparatedLiterals(Segments(nameArgs.path), 1)
            \o (IF ParamAfterLastLiteral(Segments(nameArgs.path))
                THEN <<"$">> ELSE << >>)
            \o <<nameArgs.role>>

\* a parameter segment lies between the k-th and the next literal segment
ParamBetween(path, k) ==
    LET segs == Segments(path)
        at == { i \in 1..Len(segs) :
                  /\ segs[i][1] # COLON
                  /\ Cardinality({ j \in 1..i : segs[j][1] # COLON }) = k }
        i == CHOOSE x \in at : TRUE
    IN  i < Len(segs) /\ segs[i + 1][1] = COLON

----------------------------------------------------------------------------
(* Generator: the emitted object, keys and arguments *)

RECURSIVE UniqueKeys(_)
\* no object literal of the emitted text has two entries with the same key
UniqueKeys(entries) ==
    /\ \A i, j \in 1..Len(entries) :
          entries[i].key = entries[j].key => i = j
    /\ \A i \in 1..Len(entries) :
          entries[i].kind \in {"object", "function"} =>
             UniqueKeys(entries[i].body)

\* C27: in the emitted implementation no object literal contains two
\* entries with the same key: $ is not emitted twice for a node and a static
\* child's key never equals a method key or $ of the same node
C27_NoDuplicateKeys ==
    gpc \in {"emitted", "called"} => UniqueKeys(emitted)

RECURSIVE ReplacedByPosition(_, _)
\* the path of these segments with the i-th parameter segment replaced by
\* the i-th argument
ReplacedByPosition(segs, args) ==
    IF segs = << >> THEN << >>
    ELSE IF Head(segs)[1] = COLON
    THEN <<"/">> \o Head(args) \o ReplacedByPosition(Tail(segs), Tail(args))
    ELSE <<"/">> \o Head(segs) \o ReplacedByPosition(Tail(segs), args)

\* C28: calling the emitted chain of a route whose path has parameter
\* segments with arguments v1..vk requests the path in which the i-th
\* parameter segment is replaced by vi, also when two parameter segments
\* carry the same name
C28_ArgumentsByPosition ==
    (gpc = "called" /\ ParamCount(invoked.path) > 0) =>
        /\ invoked.result.kind = "requestFn"
        /\ invoked.result.path =
             ReplacedByPosition(Segments(invoked.path), invoked.args)

----------------------------------------------------------------------------
(* Generator: generateMethodSignature, the two modes *)

\* what a signature says about optionality: whether it takes the options
\* argument and whether that is optional, and for each field of the options
\* whether it is optional
Optionality(sig) ==
    [takesOptions |-> sig.takesOptions,
     optional |-> sig.takesOptions /\ sig.optional,
     parts |-> [i \in 1..Len(sig.parts) |->
                  <<sig.parts[i].name, sig.parts[i].optional>>]]

\* C30: for every method schema the optionality of body, of query and of
\* the whole options argument in the emitted signature is the same in
\* separate-types mode as in the default inline mode
C30_SameOptionalityInBothModes ==
    signature # None =>
        Optionality(signature[1]) =
            Optionality(GenerateMethodSignature(P_u, GET, methodSchema,
                                                ~separateTypes))

----------------------------------------------------------------------------
(* Generator: collectTypesFromTree *)

\* generateParamsTypeName
GenerateParamsTypeName(path, method) ==
    LET methodName == IF method = << >> THEN << >>
                      ELSE <<method[1]>> \o ToLowerCase(Tail(method))
        statics == SelectSeq(Segments(path), LAMBDA g : ~IsParamSegment(g))
        pathParts == [i \in 1..Len(statics) |-> ToPascalCase(statics[i])]
    IN  methodName \o JoinWith(pathParts, "$") \o <<"$", "Params">>

NoSchema == MethodSchema(None, None, None, None)

\* route.schema?.[method] || {}
SchemaOf(route, method) ==
    IF route.schema = None THEN NoSchema
    ELSE LET idx == { i \in 1..Len(route.schema[1]) :
                        route.schema[1][i][1] = method }
         IN  IF idx = {} THEN NoSchema
             ELSE route.schema[1][CHOOSE i \in idx : TRUE][2]

TypeDefinition(name, type) == [name |-> name, type |-> type]
PARAMS_TYPE == <<"(string | number)[]">>

\* if (!typeDefinitions.has(typeName)) typeDefinitions.set(typeName, ...)
SetIfAbsent(defs, name, type) ==
    IF \E i \in 1..Len(defs) : defs[i].name = name THEN defs
    ELSE Append(defs, TypeDefinition(name, type))

\* the callback of node.methods.forEach in collectTypesFromTree
CollectMethodTypes(defs, route, method, accumulatedParams) ==
    LET ms == SchemaOf(route, method)
        withResponse ==
            IF ms.response # None /\ ms.response[1].node # "null"
            THEN SetIfAbsent(defs,
                             GenerateTypeName(route.path, method,
                                              "ResponseBody"),
                             ZodDefToTypeScript(ms.response[1]))
            ELSE defs
        withBody ==
            IF ms.body # None
            THEN SetIfAbsent(withResponse,
                             GenerateTypeName(route.path, method,
                                              "RequestBody"),
                             ZodDefToTypeScript(ms.body[1]))
            ELSE withResponse
        withQuery ==
            IF ms.query # None
            THEN SetIfAbsent(withBody,
                             GenerateTypeName(route.path, method,
                                              "RequestQuery"),
                             ZodDefToTypeScript(ms.query[1]))
            ELSE withBody
    IN  IF Len(accumulatedParams) > 0
        THEN SetIfAbsent(withQuery,
                         GenerateParamsTypeName(route.path, method),
                         PARAMS_TYPE)
        ELSE withQuery

RECURSIVE CollectTypesFromTree(_, _, _, _)
RECURSIVE CollectFromMethods(_, _, _, _)
RECURSIVE CollectFromStatic(_, _, _, _, _)
RECURSIVE CollectFromParams(_, _, _, _, _)

\* node.methods.forEach, from the i-th entry on
CollectFromMethods(ms, i, accumulatedParams, defs) ==
    IF i > Len(ms) THEN defs
    ELSE CollectFromMethods(ms, i + 1, accumulatedParams,
                            CollectMethodTypes(defs, ms[i].route,
                                               ms[i].method,
                                               accumulatedParams))

\* node.static.forEach, from the i-th child on
CollectFromStatic(t, node, i, accumulatedParams, defs) ==
    IF i > Len(t[node].static) THEN defs
    ELSE CollectFromStatic(t, node, i + 1, accumulatedParams,
            CollectTypesFromTree(t,
                                 Append(node, StaticEdge(t[node].static[i])),
                                 accumulatedParams, defs))

\* node.params.forEach, from the i-th child on
CollectFromParams(t, node, i, accumulatedParams, defs) ==
    IF i > Len(t[node].params) THEN defs
    ELSE CollectFromParams(t, node, i + 1, accumulatedParams,
            CollectTypesFromTree(t,
                                 Append(node, ParamEdge(t[node].params[i])),
                                 Append(accumulatedParams,
                                        t[node].params[i]),
                                 defs))

\* collectTypesFromTree(node, accumulatedParams, typeDefinitions): the
\* entries of the map in insertion order
CollectTypesFromTree(t, node, accumulatedParams, defs) ==
    CollectFromParams(t, node, 1, accumulatedParams,
        CollectFromStatic(t, node, 1, accumulatedParams,
            CollectFromMethods(t[node].methods, 1, accumulatedParams,
                               defs)))

----------------------------------------------------------------------------
(* Generator: collectTypesFromTree, the steps *)

N_u_a == <<"/", "u", "-", "a">>

\* a processed route with one method and that method's schema
TypedRoute(p, method, ms) ==
    RawRoute(p, <<method>>, Some(<< <<method, ms>> >>), None)

\* the processed routes of a schema whose methods carry descriptors
TypedRoutes ==
    { TypedRoute(P_ui, GET,
                 MethodSchema(None, None, None, Some(ZType("string")))),
      TypedRoute(P_uj, GET,
                 MethodSchema(None, None, None, Some(ZType("number")))),
      TypedRoute(P_u, GET,
                 MethodSchema(Some(ZObject(<< <<"b", ZType("number")>> >>)),
                              Some(ZObject(<< >>)), None,
                              Some(ZType("string")))),
      TypedRoute(P_ua, GET,
                 MethodSchema(None, None, None, Some(ZType("string")))),
      TypedRoute(N_u_a, GET,
                 MethodSchema(None, None, None, Some(ZType("number")))),
      TypedRoute(N_iu, GET,
                 MethodSchema(Some(ZType("string")), None, None, None)),
      TypedRoute(P_uia, GET,
                 MethodSchema(Some(ZNull), None, None, Some(ZNull))),
      RawRoute(P_ui, <<DELETE>>, None, None) }

\* generateClient --separate-types has processed the routes of the schema
InitTypes ==
    /\ gpc = "processed"
    /\ rawRoutes = << >>
    /\ routes \in SeqsUpTo(TypedRoutes, MaxRoutes)
    /\ tree = EmptyTree
    /\ nextRoute = 0
    /\ emitted = << >>
    /\ apiInterface = << >>
    /\ invoked = << >>
    /\ methodSchema = << >>
    /\ separateTypes = TRUE
    /\ signature = << >>
    /\ conversion = << >>
    /\ nameArgs = << >>
    /\ typeNames = << >>
    /\ typeDefinitions = << >>
    /\ RtIdle
    /\ ErrIdle
    /\ RunIdle

\* buildCompleteTree(routes)
BuildTypedTree ==
    /\ gpc = "processed"
    /\ tree' = InsertAll(EmptyTree, routes)
    /\ gpc' = "built"
    /\ UNCHANGED <<rawRoutes, routes, nextRoute, emitted, apiInterface,
                   invoked>>
    /\ UNCHANGED <<rtVars, errVars, sigVars, runVars>>

\* typeDefinitions = collectTypesFromTree(tree, [], typeDefinitions, log)
CollectTypes ==
    /\ gpc = "built"
    /\ typeDefinitions' = CollectTypesFromTree(tree, Root, << >>, << >>)
    /\ gpc' = "collected"
    /\ UNCHANGED <<rawRoutes, routes, tree, nextRoute, emitted, apiInterface,
                   invoked>>
    /\ UNCHANGED <<methodSchema, separateTypes, signature, conversion,
                   nameArgs, typeNames>>
    /\ UNCHANGED <<rtVars, errVars, runVars>>

NextTypes == BuildTypedTree \/ CollectTypes

SpecTypes == InitTypes /\ [][NextTypes]_vars

----------------------------------------------------------------------------
(* Generator: collectTypesFromTree, properties *)

\* the type collected under a name, None when there is none
Collected(defs, name) ==
    LET idx == { i \in 1..Len(defs) : defs[i].name = name }
    IN  IF idx = {} THEN None ELSE Some(defs[CHOOSE i \in idx : TRUE].type)

\* the type name a signature gives to a field of the options
FieldType(sig, field) ==
    LET idx == { i \in 1..Len(sig.parts) : sig.parts[i].name = field }
    IN  sig.parts[CHOOSE i \in idx : TRUE].type

\* C29: in separate-types mode, for every leaf and every role the type
\* definition collected under the name the leaf's signature references is
\* the type converted from that leaf's descriptor
C29_CollectedTypeIsTheLeafs ==
    gpc = "collected" =>
        \A l \in Leaves(tree) :
            LET ms == SchemaOf(l.route, l.method)
                sig == GenerateMethodSignature(l.route.path, l.method, ms,
                                               TRUE)
            IN  /\ (ms.response # None /\ ms.response[1].node # "null") =>
                      Collected(typeDefinitions, sig.response) =
                          Some(ZodDefToTypeScript(ms.response[1]))
                /\ ms.body # None =>
                      Collected(typeDefinitions, FieldType(sig, "body")) =
                          Some(ZodDefToTypeScript(ms.body[1]))
                /\ ms.query # None =>
                      Collected(typeDefinitions, FieldType(sig, "query")) =
                          Some(ZodDefToTypeScript(ms.query[1]))

====
